---- MODULE Spec2Model ----
(***************************************************************************)
(* A model of the heuristic Spark Extent Report parser                     *)
(* (parseSparkExtentReport, src/unnamed/part_001 lines 3-235).             *)
(*                                                                         *)
(* The input document is a bounded sequence of elements drawn from a pool; *)
(* strings are TLA+ strings and every string operation of the source       *)
(* (toLowerCase, includes, trim, split, replace, match, parseFloat) is     *)
(* computed character by character.                                        *)
(***************************************************************************)
EXTENDS Integers, Sequences, FiniteSets, TLC

(***************************************************************************)
(* String primitives (the JavaScript String methods the parser calls).     *)
(***************************************************************************)
CharAt(s, i) == SubSeq(s, i, i)

Upper == "ABCDEFGHIJKLMNOPQRSTUVWXYZ"

Lower == "abcdefghijklmnopqrstuvwxyz"

Digits == {"0", "1", "2", "3", "4", "5", "6", "7", "8", "9"}

WhiteSpace == {" ", "\n", "\t"}

LowerOf == [c \in {CharAt(Upper, i) : i \in 1..26} |->
              CharAt(Lower, CHOOSE i \in 1..26 : CharAt(Upper, i) = c)]

LowerChar(c) == IF c \in DOMAIN LowerOf THEN LowerOf[c] ELSE c

\* String.prototype.toLowerCase, character by character (by halves, which
\* keeps the evaluation shallow on long markup)
RECURSIVE ToLower(_)
ToLower(s) ==
  IF Len(s) = 0 THEN ""
  ELSE IF Len(s) = 1 THEN LowerChar(s)
  ELSE ToLower(SubSeq(s, 1, Len(s) \div 2)) \o ToLower(SubSeq(s, Len(s) \div 2 + 1, Len(s)))

\* s.startsWith(k) at offset i (1-based)
StartsAt(s, k, i) == i + Len(k) - 1 <= Len(s) /\ SubSeq(s, i, i + Len(k) - 1) = k

StartsWith(s, k) == StartsAt(s, k, 1)

\* String.prototype.includes
Includes(s, k) == \E i \in 1..(Len(s) - Len(k) + 1) : StartsAt(s, k, i)

\* first index at which k occurs in s, 0 when it does not
IndexOf(s, k) ==
  IF Includes(s, k)
    THEN CHOOSE i \in 1..(Len(s) - Len(k) + 1) :
           StartsAt(s, k, i) /\ \A j \in 1..(i - 1) : ~StartsAt(s, k, j)
    ELSE 0

\* String.prototype.trim
Trim(s) ==
  LET keep == {i \in 1..Len(s) : CharAt(s, i) \notin WhiteSpace}
  IN  IF keep = {} THEN ""
      ELSE LET lo == CHOOSE i \in keep : \A j \in keep : i <= j
               hi == CHOOSE i \in keep : \A j \in keep : j <= i
           IN  SubSeq(s, lo, hi)

\* s.split('\n')[0]
FirstLine(s) ==
  LET n == IndexOf(s, "\n") IN IF n = 0 THEN s ELSE SubSeq(s, 1, n - 1)

\* s.substring(0, n)
Substring0(s, n) == IF Len(s) <= n THEN s ELSE SubSeq(s, 1, n)

\* the whitespace-separated tokens of a class attribute (Element.classList)
RECURSIVE TokensFrom(_, _, _)
TokensFrom(s, i, cur) ==
  IF i > Len(s) THEN (IF cur = "" THEN {} ELSE {cur})
  ELSE IF CharAt(s, i) \in WhiteSpace
    THEN (IF cur = "" THEN {} ELSE {cur}) \cup TokensFrom(s, i + 1, "")
    ELSE TokensFrom(s, i + 1, cur \o CharAt(s, i))

ClassTokens(cls) == TokensFrom(cls, 1, "")

(***************************************************************************)
(* The document.  An element is [tag, cls, tokens, attr, text, kids, anc]:  *)
(* its tag name, class attribute and the tokens of it (Element.classList), *)
(* src (img) or href (a) attribute, leading text,                          *)
(* child elements (leaves: kids = <<>>) and, for a child of the body, the  *)
(* wrappers around it ("table": table > tbody, "responsive":               *)
(* div.table-responsive > table > tbody, "category": div.category-content).*)
(* A reference <<i, 0>> is the i-th child of the body, <<i, j>> its j-th   *)
(* child.  The texts of the pool hold none of & < >, so the serialisation  *)
(* of a text node is the text itself.  The kids of a template element are  *)
(* its template contents: they are serialised with it, but they are not    *)
(* its children, so no query reaches them and textContent leaves them out. *)
(***************************************************************************)
Leaf(tag, cls, attr, text) ==
  [tag |-> tag, cls |-> cls, tokens |-> ClassTokens(cls), attr |-> attr, text |-> text,
   kids |-> <<>>, anc |-> ""]

Node(tag, cls, text, kids) ==
  [tag |-> tag, cls |-> cls, tokens |-> ClassTokens(cls), attr |-> "", text |-> text,
   kids |-> kids, anc |-> ""]

Wrapped(anc, e) == [e EXCEPT !.anc = anc]

Elem(d, ref) == IF ref[2] = 0 THEN d[ref[1]] ELSE d[ref[1]].kids[ref[2]]

\* the wrapper elements around a child of the body, outermost first
Wrappers(anc) ==
  CASE anc = "table" -> <<Leaf("table", "", "", ""), Leaf("tbody", "", "", "")>>
    [] anc = "responsive" -> <<Leaf("div", "table-responsive", "", ""),
                               Leaf("table", "", "", ""), Leaf("tbody", "", "", "")>>
    [] anc = "category" -> <<Leaf("div", "category-content", "", "")>>
    [] OTHER -> <<>>

\* the ancestors of an element below the body, outermost first
Chain(d, ref) ==
  IF ref[2] = 0 THEN Wrappers(d[ref[1]].anc)
  ELSE Wrappers(d[ref[1]].anc) \o <<d[ref[1]]>>

RECURSIVE ConcatAll(_, _)
ConcatAll(strs, i) == IF i > Len(strs) THEN "" ELSE strs[i] \o ConcatAll(strs, i + 1)

\* Node.textContent; what a template element holds is not among its children
TextContent(e) ==
  e.text \o (IF e.tag = "template" THEN ""
             ELSE ConcatAll([j \in 1..Len(e.kids) |-> e.kids[j].text], 1))

OpenTag(e) ==
  "<" \o e.tag
      \o (IF e.cls = "" THEN "" ELSE " class=\"" \o e.cls \o "\"")
      \o (IF e.attr = "" THEN ""
          ELSE IF e.tag = "img" THEN " src=\"" \o e.attr \o "\""
          ELSE " href=\"" \o e.attr \o "\"")
      \o ">"

LeafHTML(e) == OpenTag(e) \o (IF e.tag = "img" THEN "" ELSE e.text \o "</" \o e.tag \o ">")

\* Element.innerHTML
InnerHTML(e) == e.text \o ConcatAll([j \in 1..Len(e.kids) |-> LeafHTML(e.kids[j])], 1)

\* Element.outerHTML
OuterHTML(e) == OpenTag(e) \o (IF e.tag = "img" THEN "" ELSE InnerHTML(e) \o "</" \o e.tag \o ">")

WrapOpen(anc) ==
  CASE anc = "table" -> "<table><tbody>"
    [] anc = "responsive" -> "<div class=\"table-responsive\"><table><tbody>"
    [] anc = "category" -> "<div class=\"category-content\">"
    [] OTHER -> ""

WrapClose(anc) ==
  CASE anc = "table" -> "</tbody></table>"
    [] anc = "responsive" -> "</tbody></table></div>"
    [] anc = "category" -> "</div>"
    [] OTHER -> ""

\* the input string: the markup of the body's children
HtmlContent(d) ==
  ConcatAll([i \in 1..Len(d) |-> WrapOpen(d[i].anc) \o OuterHTML(d[i]) \o WrapClose(d[i].anc)], 1)

\* doc.body.textContent
BodyText(d) == ConcatAll([i \in 1..Len(d) |-> TextContent(d[i])], 1)

\* every element of the document that carries a class or a tag of its own,
\* in document order (the wrappers carry no class a selector of the parser names)
RECURSIVE RefsFrom(_, _)
RefsFrom(d, i) ==
  IF i > Len(d) THEN <<>>
  ELSE <<<<i, 0>>>>
         \o (IF d[i].tag = "template" THEN <<>> ELSE [j \in 1..Len(d[i].kids) |-> <<i, j>>])
         \o RefsFrom(d, i + 1)

AllRefs(d) == RefsFrom(d, 1)

(***************************************************************************)
(* CSS selectors.  A compound selector is [tag, cls, attr, op, val, first]:*)
(* a tag name ("" for any), a set of class tokens, an attribute test       *)
(* [attr op= val] (op "*" substring, "^" prefix; attr "" for none) and     *)
(* :first-child.  A complex selector is a sequence of compounds joined by  *)
(* the descendant combinator; a selector list is a sequence of those.      *)
(***************************************************************************)
Cmp(tag, cls) == [tag |-> tag, cls |-> cls, attr |-> "", op |-> "", val |-> "", first |-> FALSE]

CmpAttr(tag, attr, op, val) ==
  [tag |-> tag, cls |-> {}, attr |-> attr, op |-> op, val |-> val, first |-> FALSE]

CmpFirst(tag) == [tag |-> tag, cls |-> {}, attr |-> "", op |-> "", val |-> "", first |-> TRUE]

AttrValue(e, attr) ==
  CASE attr = "class" -> e.cls
    [] attr = "src" -> IF e.tag = "img" THEN e.attr ELSE ""
    [] attr = "href" -> IF e.tag = "a" THEN e.attr ELSE ""
    [] OTHER -> ""

MatchCompound(c, e, isFirst) ==
  /\ c.tag = "" \/ c.tag = e.tag
  /\ c.cls \subseteq e.tokens
  /\ c.attr = "" \/ (IF c.op = "^" THEN StartsWith(AttrValue(e, c.attr), c.val)
                                   ELSE Includes(AttrValue(e, c.attr), c.val))
  /\ c.first => isFirst

\* the compounds cs[1..n] match, in order, ancestors among chain[1..m]
RECURSIVE MatchAncestors(_, _, _, _)
MatchAncestors(cs, n, chain, m) ==
  IF n = 0 THEN TRUE
  ELSE IF m = 0 THEN FALSE
  ELSE IF MatchCompound(cs[n], chain[m], FALSE)
    THEN MatchAncestors(cs, n - 1, chain, m - 1)
    ELSE MatchAncestors(cs, n, chain, m - 1)

MatchComplex(cs, d, ref) ==
  /\ MatchCompound(cs[Len(cs)], Elem(d, ref), ref[2] = 1)
  /\ MatchAncestors(cs, Len(cs) - 1, Chain(d, ref), Len(Chain(d, ref)))

MatchList(sels, d, ref) == \E k \in 1..Len(sels) : MatchComplex(sels[k], d, ref)

RECURSIVE FilterRefs(_, _, _, _)
FilterRefs(sels, d, refs, i) ==
  IF i > Len(refs) THEN <<>>
  ELSE (IF MatchList(sels, d, refs[i]) THEN <<refs[i]>> ELSE <<>>)
         \o FilterRefs(sels, d, refs, i + 1)

\* Document.querySelectorAll
DocQueryAll(sels, d) == FilterRefs(sels, d, AllRefs(d), 1)

\* the descendants of a node, in document order
Descendants(d, ref) ==
  IF ref[2] = 0 /\ d[ref[1]].tag /= "template"
    THEN [j \in 1..Len(d[ref[1]].kids) |-> <<ref[1], j>>]
    ELSE <<>>

\* Element.querySelectorAll
QueryAll(sels, d, ref) == FilterRefs(sels, d, Descendants(d, ref), 1)

(***************************************************************************)
(* Numbers and the regular expressions of the parser.                      *)
(***************************************************************************)
DigitValue(c) == CHOOSE n \in 0..9 : CharAt("0123456789", n + 1) = c

\* the value of a string of digits
RECURSIVE ToNat(_, _)
ToNat(s, n) == IF n = 0 THEN 0 ELSE 10 * ToNat(s, n - 1) + DigitValue(CharAt(s, n))

\* parseInt of a string of digits (the capture of (\d+))
ParseInt(s) == ToNat(s, Len(s))

\* the end (exclusive) of the longest run of characters of cs starting at i
RECURSIVE RunEnd(_, _, _)
RunEnd(s, i, cs) ==
  IF i <= Len(s) /\ CharAt(s, i) \in cs THEN RunEnd(s, i + 1, cs) ELSE i

\* the end (exclusive) of the longest run of characters not of cs starting at i
RECURSIVE RunEndNot(_, _, _)
RunEndNot(s, i, cs) ==
  IF i <= Len(s) /\ CharAt(s, i) \notin cs THEN RunEndNot(s, i + 1, cs) ELSE i

RECURSIVE KeepChars(_, _, _)
KeepChars(s, i, cs) ==
  IF i > Len(s) THEN ""
  ELSE (IF CharAt(s, i) \in cs THEN CharAt(s, i) ELSE "") \o KeepChars(s, i + 1, cs)

\* s.replace(/[^0-9.]/g, '')
StripNonNumeric(s) == KeepChars(s, 1, Digits \cup {"."})

RECURSIVE StripTrailingZeros(_)
StripTrailingZeros(s) ==
  IF s /= "" /\ CharAt(s, Len(s)) = "0" THEN StripTrailingZeros(SubSeq(s, 1, Len(s) - 1)) ELSE s

\* A number is the decimal mant / 10^exp, or NaN.
NaN == [nan |-> TRUE, mant |-> 0, exp |-> 0]

Num(mant, exp) == [nan |-> FALSE, mant |-> mant, exp |-> exp]

\* parseFloat of a string of digits and dots: the longest prefix
\* digits [. digits] that holds a digit, NaN when there is none
ParseFloat(s) ==
  LET ie == RunEnd(s, 1, Digits)
      int == SubSeq(s, 1, ie - 1)
      fe == IF ie <= Len(s) /\ CharAt(s, ie) = "." THEN RunEnd(s, ie + 1, Digits) ELSE ie
      frac == IF fe > ie THEN StripTrailingZeros(SubSeq(s, ie + 1, fe - 1)) ELSE ""
      any == ie > 1 \/ fe > ie + 1
  IN  IF ~any THEN NaN ELSE Num(ParseInt(int \o frac), Len(frac))

\* x || 0 for a number x
OrZero(x) == IF x.nan \/ x.mant = 0 THEN Num(0, 0) ELSE x

\* The count patterns /kw(?:suf1|suf2)?\s*[:\s]*(\d+)/i.  CountMatchAt is the
\* capture of a match starting at i, "" when there is none; sufs lists the
\* optional group's alternatives in order, then "" for its absence.
CountMatchAt(low, kw, sufs, i) ==
  LET ok(k) == /\ StartsAt(low, kw, i)
               /\ StartsAt(low, sufs[k], i + Len(kw))
               /\ LET p == RunEnd(low, i + Len(kw) + Len(sufs[k]), WhiteSpace \cup {":"})
                  IN  p <= Len(low) /\ CharAt(low, p) \in Digits
  IN  IF \E k \in 1..Len(sufs) : ok(k)
        THEN LET k == CHOOSE k \in 1..Len(sufs) : ok(k) /\ \A j \in 1..(k - 1) : ~ok(j)
                 p == RunEnd(low, i + Len(kw) + Len(sufs[k]), WhiteSpace \cup {":"})
             IN  SubSeq(low, p, RunEnd(low, p, Digits) - 1)
        ELSE ""

\* text.match(re): the capture of the leftmost match, "" when there is none
CountMatch(text, kw, sufs) ==
  LET low == ToLower(text)
      hits == {i \in 1..Len(low) : StartsAt(low, kw, i) /\ CountMatchAt(low, kw, sufs, i) /= ""}
  IN  IF hits = {} THEN ""
      ELSE CountMatchAt(low, kw, sufs, CHOOSE i \in hits : \A j \in hits : i <= j)

\* match ? parseInt(match[1]) : 0
CountOf(capture) == IF capture = "" THEN 0 ELSE ParseInt(capture)

\* The prefix test[_\s-]?name["']?\s*[>:] of the test-name pattern at i:
\* the position after [>:], 0 when the prefix does not match at i.
NamePrefixEnd(s, low, i) ==
  LET a == i + 4
      b == IF a <= Len(s) /\ CharAt(s, a) \in (WhiteSpace \cup {"_", "-"}) THEN a + 1 ELSE a
      c == b + 4
      e == IF c <= Len(s) /\ CharAt(s, c) \in {"\"", "'"} THEN c + 1 ELSE c
      f == RunEnd(s, e, WhiteSpace)
  IN  IF StartsAt(low, "test", i) /\ StartsAt(low, "name", b)
         /\ f <= Len(s) /\ CharAt(s, f) \in {">", ":"}
        THEN f + 1 ELSE 0

\* where the capture ([^<\n]+) starts after the prefix ending before p: \s* is
\* greedy and gives characters back until the capture holds one; 0 for no match
NameCaptureStart(s, p) ==
  LET q == RunEnd(s, p, WhiteSpace)
      back == {r \in p..(q - 1) : CharAt(s, r) /= "\n"}
  IN  IF q <= Len(s) /\ CharAt(s, q) /= "<" THEN q
      ELSE IF back = {} THEN 0
      ELSE CHOOSE r \in back : \A r2 \in back : r2 <= r

CaptureEnd(s, i) == RunEndNot(s, i, {"<", "\n"})

\* the end (exclusive) of a match of the whole test-name pattern at i, 0 for none
NameMatchEnd(s, low, i) ==
  LET p == NamePrefixEnd(s, low, i)
      c == IF p = 0 THEN 0 ELSE NameCaptureStart(s, p)
  IN  IF c = 0 THEN 0 ELSE CaptureEnd(s, c)

\* htmlContent.match(/test[_\s-]?name["']?\s*[>:]\s*([^<\n]+)/gi) || []
\* the matches that start at one of the positions hits, at or after i, none
\* overlapping an earlier one
RECURSIVE NameMatchesFrom(_, _, _, _)
NameMatchesFrom(s, low, hits, i) ==
  LET later == {h \in hits : h >= i}
  IN  IF later = {} THEN <<>>
      ELSE LET h == CHOOSE h \in later : \A g \in later : h <= g
               e == NameMatchEnd(s, low, h)
           IN  <<SubSeq(s, h, e - 1)>> \o NameMatchesFrom(s, low, hits, e)

TestNameMatches(html) ==
  LET low == ToLower(html)
      hits == {i \in 1..Len(html) : StartsAt(low, "test", i) /\ NameMatchEnd(html, low, i) /= 0}
  IN  NameMatchesFrom(html, low, hits, 1)

\* m.replace(/test[_\s-]?name["']?\s*[>:]\s*/i, '').trim() for a match m
StripNamePrefix(m) ==
  LET low == ToLower(m)
      hits == {i \in 1..Len(m) : NamePrefixEnd(m, low, i) /= 0}
  IN  IF hits = {} THEN Trim(m)
      ELSE LET i == CHOOSE i \in hits : \A j \in hits : i <= j
               e == RunEnd(m, NamePrefixEnd(m, low, i), WhiteSpace)
           IN  Trim(SubSeq(m, 1, i - 1) \o SubSeq(m, e, Len(m)))

\* a variant for the pattern /data:([^;]+);(.+)/
DataUriMatchAtLoose(src, i) ==
  LET semi == RunEndNot(src, i + 5, {";"})
      pay == semi + 1
      stop == RunEndNot(src, pay, {"\n"})
  IN  IF StartsAt(src, "data:", i) /\ semi > i + 5 /\ StartsAt(src, ";", semi) /\ stop > pay
        THEN <<SubSeq(src, i + 5, semi - 1), SubSeq(src, pay, stop - 1)>>
        ELSE <<>>

\* src.match(/data:([^;]+);base64,(.+)/): <<mime, payload>> of the leftmost
\* match, <<>> when there is none
DataUriMatchAt(src, i) ==
  LET semi == RunEndNot(src, i + 5, {";"})
      pay == semi + 8
      stop == RunEndNot(src, pay, {"\n"})
  IN  IF StartsAt(src, "data:", i) /\ semi > i + 5 /\ StartsAt(src, ";base64,", semi)
         /\ stop > pay
        THEN <<SubSeq(src, i + 5, semi - 1), SubSeq(src, pay, stop - 1)>>
        ELSE <<>>

DataUriMatch(src) ==
  LET hits == {i \in 1..Len(src) : StartsAt(src, "data:", i) /\ DataUriMatchAt(src, i) /= <<>>}
  IN  IF hits = {} THEN <<>>
      ELSE DataUriMatchAt(src, CHOOSE i \in hits : \A j \in hits : i <= j)

(***************************************************************************)
(* parseSparkExtentReport: the Node Selector Cascade.                      *)
(***************************************************************************)
\* One selector means a selector list of one complex selector of one compound.
One(c) == <<<<c>>>>

selectors ==
  << One(Cmp("", {"test"})),
     One(Cmp("", {"test-content"})),
     One(Cmp("", {"card", "test-card"})),
     One(Cmp("li", {"test"})),
     One(CmpAttr("div", "class", "*", "test")),
     << <<Cmp("table", {}), Cmp("tbody", {}), Cmp("tr", {})>> >>,
     << <<Cmp("", {"table-responsive"}), Cmp("tbody", {}), Cmp("tr", {})>> >>,
     One(Cmp("", {"node"})),
     << <<Cmp("", {"category-content"}), Cmp("", {"test-detail"})>> >>,
     One(Cmp("", {"test-item"})),
     One(Cmp("", {"test-row"})) >>

statusClassSelectors ==
  << <<CmpAttr("", "class", "*", "pass")>>, <<CmpAttr("", "class", "*", "fail")>>,
     <<CmpAttr("", "class", "*", "skip")>>, <<CmpAttr("", "class", "*", "error")>> >>

\* a variant in which the last selector that matches wins
RECURSIVE CascadeFromLast(_, _)
CascadeFromLast(d, k) ==
  IF k > Len(selectors) THEN <<>>
  ELSE LET later == CascadeFromLast(d, k + 1)
       IN  IF Len(later) > 0 THEN later ELSE DocQueryAll(selectors[k], d)

\* the loop over selectors: the nodes of the first selector, from the k-th on,
\* that matches an element
RECURSIVE CascadeFrom(_, _)
CascadeFrom(d, k) ==
  IF k > Len(selectors) THEN <<>>
  ELSE LET nodes == DocQueryAll(selectors[k], d)
       IN  IF Len(nodes) > 0 THEN nodes ELSE CascadeFrom(d, k + 1)

\* testNodes after the cascade and the status-class fallback
SelectTestNodes(d) ==
  LET nodes == CascadeFrom(d, 1)
  IN  IF Len(nodes) = 0 THEN DocQueryAll(statusClassSelectors, d) ELSE nodes

(***************************************************************************)
(* parseSparkExtentReport: the field extractors of one node.               *)
(***************************************************************************)
None == <<>>

Some(v) == <<v>>

nameSelectors ==
  << One(Cmp("", {"test-name"})), One(Cmp("", {"name"})), One(CmpFirst("td")),
     One(Cmp("h5", {})), One(Cmp("", {"card-title"})), One(Cmp("", {"test-title"})),
     One(Cmp("a", {})) >>

\* the text of the first matching element of the first selector list, from
\* the k-th on, whose first match has text; "" when there is none
RECURSIVE FirstTextFrom(_, _, _, _)
FirstTextFrom(sels, d, ref, k) ==
  IF k > Len(sels) THEN ""
  ELSE LET els == QueryAll(sels[k], d, ref)
           text == IF Len(els) > 0 THEN Trim(TextContent(Elem(d, els[1]))) ELSE ""
       IN  IF text /= "" THEN text ELSE FirstTextFrom(sels, d, ref, k + 1)

ExtractName(d, ref, index) ==
  LET name == FirstTextFrom(nameSelectors, d, ref, 1)
      line == Substring0(FirstLine(Trim(TextContent(Elem(d, ref)))), 100)
  IN  IF name /= "" THEN name
      ELSE IF line /= "" THEN line
      ELSE "Test " \o ToString(index + 1)

\* a variant that tests the skip words before the fail words
NodeStatusSkipFirst(e) ==
  LET nodeText == ToLower(TextContent(e))
      nodeClass == ToLower(e.cls)
      nodeHtml == ToLower(InnerHTML(e))
  IN  IF Includes(nodeClass, "skip") \/ Includes(nodeHtml, "skip") \/ Includes(nodeText, "skipped")
        THEN "skip"
      ELSE IF Includes(nodeClass, "fail") \/ Includes(nodeClass, "error")
              \/ Includes(nodeHtml, "fail") \/ Includes(nodeHtml, "error")
              \/ Includes(nodeText, "failed") \/ Includes(nodeText, "exception")
        THEN "fail"
      ELSE "pass"

\* the verdict of the node's own class, markup and text
NodeStatus(e) ==
  LET nodeText == ToLower(TextContent(e))
      nodeClass == ToLower(e.cls)
      nodeHtml == ToLower(InnerHTML(e))
  IN  IF \/ Includes(nodeClass, "fail") \/ Includes(nodeClass, "error")
         \/ Includes(nodeHtml, "fail") \/ Includes(nodeHtml, "error")
         \/ Includes(nodeText, "failed") \/ Includes(nodeText, "exception")
        THEN "fail"
      ELSE IF \/ Includes(nodeClass, "skip") \/ Includes(nodeHtml, "skip")
              \/ Includes(nodeText, "skipped")
        THEN "skip"
      ELSE "pass"

statusSelectors ==
  << <<Cmp("", {"status"})>>, <<Cmp("", {"badge"})>>,
     <<CmpAttr("", "class", "*", "status")>>, <<Cmp("", {"test-status"})>> >>

\* a variant that tests the badge for the words of the whole-node rules
BadgeStatusNodeWords(statusEl) ==
  LET statusText == ToLower(TextContent(statusEl))
      statusClass == ToLower(statusEl.cls)
  IN  IF \E w \in {"fail", "error", "failed", "exception"} :
           Includes(statusText, w) \/ Includes(statusClass, w)
        THEN "fail"
      ELSE IF \E w \in {"skip", "skipped"} : Includes(statusText, w) \/ Includes(statusClass, w)
        THEN "skip"
      ELSE ""

\* the verdict of the status badge: "" when it gives none
BadgeStatus(statusEl) ==
  LET statusText == ToLower(TextContent(statusEl))
      statusClass == ToLower(statusEl.cls)
  IN  IF \/ Includes(statusText, "fail") \/ Includes(statusClass, "fail")
         \/ Includes(statusClass, "danger")
        THEN "fail"
      ELSE IF \/ Includes(statusText, "skip") \/ Includes(statusClass, "skip")
              \/ Includes(statusClass, "warning")
        THEN "skip"
      ELSE ""

\* the status/badge element of a node: a sequence of at most one reference
StatusEl(d, ref) ==
  LET els == QueryAll(statusSelectors, d, ref)
  IN  IF Len(els) = 0 THEN <<>> ELSE <<els[1]>>

\* a variant that never consults the badge
ExtractStatusWholeOnly(d, ref) == NodeStatus(Elem(d, ref))

ExtractStatus(d, ref) ==
  LET whole == NodeStatus(Elem(d, ref))
      badge == StatusEl(d, ref)
      verdict == IF badge = <<>> THEN "" ELSE BadgeStatus(Elem(d, badge[1]))
  IN  IF verdict /= "" THEN verdict ELSE whole

errorSelectors ==
  << One(Cmp("", {"exception"})), One(Cmp("", {"error"})), One(Cmp("", {"stacktrace"})),
     One(Cmp("", {"stack-trace"})), One(Cmp("pre", {})), One(Cmp("code", {})),
     One(Cmp("", {"log"})), One(Cmp("", {"step-details"})) >>

\* sels.forEach(sel => node.querySelectorAll(sel).forEach(...)): the elements
\* visited, selector by selector
RECURSIVE VisitAll(_, _, _, _)
VisitAll(sels, d, ref, k) ==
  IF k > Len(sels) THEN <<>>
  ELSE QueryAll(sels[k], d, ref) \o VisitAll(sels, d, ref, k + 1)

\* a variant that looks for a message in the first element only
ExtractErrorsFirstOnly(d, ref) ==
  LET els == VisitAll(errorSelectors, d, ref, 1)
  IN  IF Len(els) = 0 THEN [logs |-> <<>>, stackTrace |-> "", errorMessage |-> ""]
      ELSE LET text == Trim(TextContent(Elem(d, els[1])))
           IN  [logs |-> <<text>>, stackTrace |-> "",
                errorMessage |-> IF Includes(text, "Expected") THEN text ELSE ""]

\* the state [logs, stackTrace, errorMessage] after visiting els[1..n]
RECURSIVE ErrorScan(_, _, _)
ErrorScan(d, els, n) ==
  IF n = 0 THEN [logs |-> <<>>, stackTrace |-> "", errorMessage |-> ""]
  ELSE LET acc == ErrorScan(d, els, n - 1)
           text == Trim(TextContent(Elem(d, els[n])))
       IN  IF text = "" THEN acc
           ELSE [logs |-> Append(acc.logs, text),
                 stackTrace |->
                   IF (Includes(text, "Exception") \/ Includes(text, "Error")
                       \/ Includes(text, "at ")) /\ acc.stackTrace = ""
                     THEN text ELSE acc.stackTrace,
                 errorMessage |->
                   IF acc.errorMessage = ""
                      /\ (Includes(text, "Assert") \/ Includes(text, "Expected")
                          \/ Includes(text, "Error:"))
                     THEN FirstLine(text) ELSE acc.errorMessage]

ExtractErrors(d, ref) ==
  LET els == VisitAll(errorSelectors, d, ref, 1) IN ErrorScan(d, els, Len(els))

stepSelectors ==
  << One(Cmp("", {"step"})), One(Cmp("", {"test-step"})), One(Cmp("", {"log-step"})),
     One(Cmp("", {"step-name"})), One(Cmp("", {"step-details"})),
     One(Cmp("", {"node-step"})), One(Cmp("li", {"step"})) >>

logSelectors ==
  << <<Cmp("", {"log"})>>, <<Cmp("", {"test-log"})>>, <<CmpAttr("", "class", "*", "step")>> >>

StepMaxLen == 500

LogStepMaxLen == 300

StepMinLen == 5

\* the trimmed texts of els, in order, that pass the length band
RECURSIVE StepTexts(_, _, _, _, _)
StepTexts(d, els, i, max, noException) ==
  IF i > Len(els) THEN <<>>
  ELSE LET text == Trim(TextContent(Elem(d, els[i])))
       IN  (IF text /= "" /\ Len(text) > StepMinLen /\ Len(text) < max
               /\ (noException => ~Includes(text, "Exception"))
              THEN <<text>> ELSE <<>>)
             \o StepTexts(d, els, i + 1, max, noException)

ExtractSteps(d, ref) ==
  LET steps == StepTexts(d, VisitAll(stepSelectors, d, ref, 1), 1, StepMaxLen, FALSE)
  IN  IF Len(steps) = 0
        THEN StepTexts(d, QueryAll(logSelectors, d, ref), 1, LogStepMaxLen, TRUE)
        ELSE steps

imgSelectors ==
  << One(CmpAttr("img", "src", "^", "data:image")),
     One(Cmp("img", {"screenshot"})),
     << <<Cmp("", {"screenshot"}), Cmp("img", {})>> >>,
     << <<Cmp("", {"test-img"}), Cmp("img", {})>> >>,
     << <<Cmp("", {"media"}), Cmp("img", {})>> >> >>

\* the URL the report page is served from: relative URLs resolve against it
BaseUrl == "http://localhost/"

\* HTMLImageElement.src / HTMLAnchorElement.href: the attribute as a resolved URL
ResolveUrl(attr) ==
  IF attr = "" THEN ""
  ELSE IF StartsWith(attr, "data:") \/ StartsWith(attr, "http:") THEN attr
  ELSE BaseUrl \o attr

\* the screenshots pushed for the images els[1..n] of one selector
RECURSIVE ShotsOf(_, _, _, _)
ShotsOf(d, els, n, count) ==
  IF n = 0 THEN <<>>
  ELSE LET src == ResolveUrl(Elem(d, els[n]).attr)
           match == IF StartsWith(src, "data:image") THEN DataUriMatch(src) ELSE <<>>
       IN  ShotsOf(d, els, n - 1, count)
             \o (IF match /= <<>>
                   THEN <<[name |-> "screenshot-" \o ToString(count + 1) \o "-"
                                      \o ToString(n) \o ".png",
                           mimeType |-> match[1],
                           base64Data |-> match[2]]>>
                   ELSE <<>>)

RECURSIVE ShotsFrom(_, _, _, _)
ShotsFrom(d, ref, k, count) ==
  IF k > Len(imgSelectors) THEN <<>>
  ELSE LET els == QueryAll(imgSelectors[k], d, ref)
       IN  ShotsOf(d, els, Len(els), count) \o ShotsFrom(d, ref, k + 1, count)

\* count is testCases.length when the node is visited
ExtractScreenshots(d, ref, count) == ShotsFrom(d, ref, 1, count)

linkSelectors ==
  << <<CmpAttr("a", "href", "*", "screenshot")>>, <<CmpAttr("a", "href", "*", "image")>>,
     <<Cmp("", {"screenshot-link"})>> >>

RECURSIVE LinkLogs(_, _, _)
LinkLogs(d, els, i) ==
  IF i > Len(els) THEN <<>>
  ELSE LET e == Elem(d, els[i])
           href == IF e.tag = "a" THEN ResolveUrl(e.attr) ELSE ""
       IN  (IF href /= "" /\ (Includes(href, ".png") \/ Includes(href, ".jpg")
                              \/ Includes(href, ".jpeg"))
              THEN <<"Screenshot available: " \o href>> ELSE <<>>)
             \o LinkLogs(d, els, i + 1)

ExtractLinkLogs(d, ref) == LinkLogs(d, QueryAll(linkSelectors, d, ref), 1)

classSelectors ==
  << One(Cmp("", {"class-name"})), One(Cmp("", {"category"})),
     One(Cmp("", {"test-class"})), One(Cmp("", {"package"})) >>

ExtractClassName(d, ref) ==
  LET className == FirstTextFrom(classSelectors, d, ref, 1)
  IN  IF className = "" THEN "Test Suite" ELSE className

durationSelectors ==
  << <<Cmp("", {"duration"})>>, <<Cmp("", {"time"})>>,
     <<CmpAttr("", "class", "*", "time")>>, <<Cmp("", {"test-time"})>> >>

\* a variant without the || 0
DurationOfNoDefault(durationText) == ParseFloat(StripNonNumeric(durationText))

\* parseFloat(durationText.replace(/[^0-9.]/g, '')) || 0
DurationOf(durationText) == OrZero(ParseFloat(StripNonNumeric(durationText)))

\* durationEl?.textContent || '0'
DurationText(d, ref) ==
  LET els == QueryAll(durationSelectors, d, ref)
  IN  IF Len(els) = 0 \/ TextContent(Elem(d, els[1])) = "" THEN "0"
      ELSE TextContent(Elem(d, els[1]))

ExtractDuration(d, ref) == DurationOf(DurationText(d, ref))

\* x || undefined for a string, xs.length > 0 ? xs : undefined for an array
OrUndefined(v) == IF Len(v) = 0 THEN None ELSE Some(v)

\* a variant that derives the id from the node's content
TestIdFromName(index, name) == "test-" \o name

\* id: `test-${index + 1}`
TestId(index, name) == "test-" \o ToString(index + 1)

\* the record pushed for the node at position index (0-based) of testNodes;
\* count is testCases.length and now the clock read by new Date()
BuildTestCase(d, ref, index, count, now) ==
  LET err == ExtractErrors(d, ref)
      name == ExtractName(d, ref, index)
  IN  [id |-> TestId(index, name),
       name |-> name,
       className |-> ExtractClassName(d, ref),
       status |-> ExtractStatus(d, ref),
       duration |-> ExtractDuration(d, ref),
       errorMessage |-> OrUndefined(err.errorMessage),
       stackTrace |-> OrUndefined(err.stackTrace),
       logs |-> OrUndefined(err.logs \o ExtractLinkLogs(d, ref)),
       stepsToReproduce |-> OrUndefined(ExtractSteps(d, ref)),
       screenshots |-> OrUndefined(ExtractScreenshots(d, ref, count)),
       timestamp |-> Some(now)]

\* if (name && name.length > 2)
MinNameLen == 2

\* a variant that accepts every non-empty name
AnyName(name) == name /= ""

MeaningfulName(name) == name /= "" /\ Len(name) > MinNameLen

(***************************************************************************)
(* parseSparkExtentReport: the regex fallback.                             *)
(***************************************************************************)
\* doc.body?.textContent || htmlContent
FallbackText(d) == IF BodyText(d) = "" THEN HtmlContent(d) ELSE BodyText(d)

\* passMatch ? parseInt(passMatch[1]) : 0, and so on
passCount(text) == CountOf(CountMatch(text, "pass", <<"ed", "">>))

failCount(text) == CountOf(CountMatch(text, "fail", <<"ed", "ure", "">>))

skipCount(text) == CountOf(CountMatch(text, "skip", <<"ped", "">>))

Max(a, b) == IF a >= b THEN a ELSE b

\* a variant of the loop bound without its floor of one
FallbackLengthNoFloor(pass, fail, skip, names) == Max(pass + fail + skip, Len(names))

\* Math.max(passCount + failCount + skipCount, testNameMatches.length, 1)
FallbackLength(pass, fail, skip, names) == Max(Max(pass + fail + skip, Len(names)), 1)

\* a variant that tests the skip range before the fail range
FallbackStatusSkipFirst(i, fail, skip) ==
  IF i < skip THEN "skip"
  ELSE IF i < fail + skip THEN "fail"
  ELSE "pass"

FallbackStatus(i, fail, skip) ==
  IF i < fail THEN "fail"
  ELSE IF i < fail + skip THEN "skip"
  ELSE "pass"

\* a variant whose placeholder counts from zero
FallbackNameZeroBased(i, names) ==
  LET name == IF i + 1 <= Len(names) THEN StripNamePrefix(names[i + 1]) ELSE ""
  IN  IF name /= "" THEN name ELSE "Test Case " \o ToString(i)

\* a variant without the placeholder
FallbackNameNoPlaceholder(i, names) ==
  IF i + 1 <= Len(names) THEN StripNamePrefix(names[i + 1]) ELSE ""

FallbackName(i, names) ==
  LET name == IF i + 1 <= Len(names) THEN StripNamePrefix(names[i + 1]) ELSE ""
  IN  IF name /= "" THEN name ELSE "Test Case " \o ToString(i + 1)

\* the record pushed by the fallback loop at i (0-based)
FallbackTestCase(i, fail, skip, names) ==
  [id |-> "extracted-" \o ToString(i + 1),
   name |-> FallbackName(i, names),
   className |-> "Extracted from report",
   status |-> FallbackStatus(i, fail, skip),
   duration |-> Num(0, 0),
   errorMessage |-> None, stackTrace |-> None, logs |-> None,
   stepsToReproduce |-> None, screenshots |-> None, timestamp |-> None]

FallbackTestCases(d) ==
  LET text == FallbackText(d)
      pass == passCount(text)
      fail == failCount(text)
      skip == skipCount(text)
      names == TestNameMatches(HtmlContent(d))
  IN  [k \in 1..FallbackLength(pass, fail, skip, names) |->
         FallbackTestCase(k - 1, fail, skip, names)]

(***************************************************************************)
(* The inputs: documents of at most MaxNodes children of the body, each    *)
(* drawn from a pool of report fragments.                                  *)
(***************************************************************************)
MaxNodes == 2

DataUri(mime, payload) == "data:" \o mime \o ";base64," \o payload

ImageMimes == {"image/png", "image/jpeg"}

Payloads == {"QUJD", "/9j/4A=="}

kName == Leaf("span", "test-name", "", "Login")

kPreAssert == Leaf("pre", "", "", "AssertionError: expected true")

kPreError == Leaf("pre", "", "", "Error: timeout\n  at run.js:3")

kLogAt == Leaf("div", "log", "", "Clicked at header")

kStep == Leaf("li", "step", "", "Open the login page")

kCategory == Leaf("span", "category", "", "Smoke")

CandidatePool ==
  { \* a passing node whose badge is styled as a failure
    Node("div", "test pass", "", <<kName, Leaf("span", "badge danger", "", "KO")>>),
    \* a failing node with an assertion in a <pre>
    Node("div", "test fail", "", <<kName, kPreAssert>>),
    \* a passing node with nothing but its own text
    Node("div", "test pass", "Search works\nsecond line", <<>>),
    \* a passing node with a log line and a duration
    Node("div", "test pass", "", <<kName, kLogAt, Leaf("span", "duration", "", "12.5s")>>),
    \* an error in the markup, a badge that says skipped
    Node("div", "test", "", <<Leaf("h5", "", "", "Checkout"),
                              Leaf("span", "badge warning", "", "Skipped"), kPreError>>),
    \* a node with steps, a category and a signed duration
    Node("div", "test", "", <<kName, kStep, kCategory, Leaf("span", "test-time", "", "-3.0 s")>>),
    \* a node whose only text is too short to be a name
    Node("div", "test", "ok", <<>>),
    \* a node with an unparseable duration and no name element
    Node("div", "test", "", <<Leaf("span", "time", "", "abc")>>),
    \* an empty node
    Node("div", "test", "", <<>>),
    \* a list item found only by a later selector of the cascade
    Node("li", "test-item", "", <<Leaf("a", "", "shots/screenshot1.png", "Item one"),
                                  Leaf("span", "status", "", "passed")>>),
    \* a table row
    Wrapped("table", Node("tr", "", "", <<Leaf("td", "", "", "Row case"),
                                         Leaf("td", "status", "", "Failed")>>)),
    \* an element found only by the status-class fallback
    Leaf("span", "status-passed", "", "Summary"),
    \* a skipped node without a badge
    Node("div", "test skip", "", <<kName>>),
    \* a skipped node whose log names an exception
    Node("div", "test skip", "", <<kName, Leaf("div", "log", "", "TimeoutException raised")>>),
    \* a node whose markup, but not its text, says exception
    Node("div", "test", "", <<kName, Leaf("span", "exception", "", "NPE in step 3")>>) }

\* nodes carrying images: inline data URIs, a linked file, a non-base64 data URI
ImagePool ==
  { Node("div", "test", "", <<kName, Leaf("img", "", DataUri(m, p), "")>>) :
      m \in ImageMimes, p \in {"QUJD"} }
  \cup
  { Node("div", "test", "", <<kName, Leaf("img", "screenshot", DataUri("image/png", p), ""),
                              Leaf("img", "screenshot", "shots/a.png", ""),
                              Leaf("img", "", "data:image/svg+xml;utf8,x", "")>>) :
      p \in {"/9j/4A=="} }

\* elements no selector of the cascade matches
TextPool ==
  { Leaf("p", "", "", "Failed: 3, Passed: 7, Skipped: 2"),
    Leaf("p", "", "", "Passed: 1 Failed: 0 Skipped: 0"),
    Leaf("p", "", "", "failures:0 passed:0 skipped:0"),
    Leaf("p", "", "", "Skipped 2"),
    Leaf("p", "", "", "test name: Alpha\nTest_Name: Beta\n"),
    Leaf("p", "", "", "testname:  \n"),
    Leaf("span", "test-name", "", "Login"),
    Leaf("a", "", "run-failed2.html", ""),
    Leaf("p", "", "", "Hello report") }

ElementPool == CandidatePool \cup ImagePool \cup TextPool

Documents == UNION {[1..n -> ElementPool] : n \in 0..MaxNodes}

(***************************************************************************)
(* The state: the input document, the position of the running parse, its   *)
(* locals, the clock, and the result of the first parse of the document    *)
(* once the caller parses it again.  origin is a history variable: the     *)
(* node each record of testCases was built from (<<0, 0>>: the fallback).  *)
(***************************************************************************)
VARIABLES doc, pc, testNodes, index, testCases, origin, now, run, first

parserVars == <<doc, pc, testNodes, index, testCases, origin, now, run, first>>

(***************************************************************************)
(* The state of the analyze-report function: the request body, the         *)
(* configured key, the position of the handler, the reply of the AI        *)
(* gateway, the number of calls made to it, and the response.              *)
(***************************************************************************)
VARIABLES analyzeReq, LOVABLE_API_KEY, analyzePc, aiResponse, gatewayCalls, analyzeResponse

analyzeVars ==
  <<analyzeReq, LOVABLE_API_KEY, analyzePc, aiResponse, gatewayCalls, analyzeResponse>>

\* no request to analyze-report is being served
AnalyzeIdle ==
  /\ analyzeReq = <<>>
  /\ LOVABLE_API_KEY = FALSE
  /\ analyzePc = "off"
  /\ aiResponse = <<>>
  /\ gatewayCalls = 0
  /\ analyzeResponse = <<>>

\* the parser is not running
ParserIdle ==
  /\ doc = <<>>
  /\ pc = "off"
  /\ testNodes = <<>>
  /\ index = 0
  /\ testCases = <<>>
  /\ origin = <<>>
  /\ now = 0
  /\ run = 1
  /\ first = <<>>

(***************************************************************************)
(* The state of the create-jira-issue function: the request body, the      *)
(* position of the handler, the tracker's reply to the issue creation, the *)
(* names attached so far, the response, and a history of what happened to  *)
(* each screenshot the loop has visited.                                   *)
(***************************************************************************)
VARIABLES jiraReq, jiraPc, createResponse, attachmentResults, attachLog, jiraResponse

jiraVars == <<jiraReq, jiraPc, createResponse, attachmentResults, attachLog, jiraResponse>>

\* no request to create-jira-issue is being served
JiraIdle ==
  /\ jiraReq = <<>>
  /\ jiraPc = "off"
  /\ createResponse = <<>>
  /\ attachmentResults = <<>>
  /\ attachLog = <<>>
  /\ jiraResponse = <<>>

(***************************************************************************)
(* The state of the page: the file handed to the upload widget and the     *)
(* widget's error, the number of calls of onFileSelect, the position of    *)
(* handleFile/handleFileSelect, the page's isLoading and result, the       *)
(* toasts shown, the number of invocations of analyze-report and what the  *)
(* last one returned, and the page's fileName; and of the issue button:    *)
(* the stored credentials, the failure card whose button was pressed, the  *)
(* position of handleCreate, isCreating, createdIssue and what the         *)
(* invocation of create-jira-issue returned.                               *)
(***************************************************************************)
VARIABLES file, fileName, uploadError, selected, pagePc, isLoading, result, toasts,
          invocations, invokeReply, credentials, clicked, buttonPc, isCreating,
          createdIssue, createReply

pageVars ==
  <<file, fileName, uploadError, selected, pagePc, isLoading, result, toasts, invocations,
    invokeReply>>

buttonVars == <<credentials, clicked, buttonPc, isCreating, createdIssue, createReply>>

\* nothing is uploaded and no issue is being created
PageIdle ==
  /\ file = <<>>
  /\ fileName = <<>>
  /\ uploadError = <<>>
  /\ selected = 0
  /\ pagePc = "off"
  /\ isLoading = FALSE
  /\ result = <<>>
  /\ toasts = <<>>
  /\ invocations = 0
  /\ invokeReply = <<>>
  /\ credentials = FALSE
  /\ clicked = 0
  /\ buttonPc = "off"
  /\ isCreating = FALSE
  /\ createdIssue = <<>>
  /\ createReply = <<>>

(***************************************************************************)
(* The state of extractRawContent: its own parse of the input (rawDoc),    *)
(* the position of the function, the index of the selector the loop is at, *)
(* contentAreas, and the text returned (rawContent in handleFileSelect).   *)
(***************************************************************************)
VARIABLES rawDoc, rawPc, rawIndex, contentAreas, rawContent

rawVars == <<rawDoc, rawPc, rawIndex, contentAreas, rawContent>>

\* extractRawContent is not running
RawIdle ==
  /\ rawDoc = <<>>
  /\ rawPc = "off"
  /\ rawIndex = 0
  /\ contentAreas = <<>>
  /\ rawContent = <<>>

(***************************************************************************)
(* The calls of handleFile and handleFileSelect that are under way at the  *)
(* same time: for each, the file it was given and the position it has      *)
(* reached.  resultOf is a history variable: the name of the file whose    *)
(* analysis the page's result came from.                                   *)
(***************************************************************************)
VARIABLES runs, resultOf

raceVars == <<runs, resultOf>>

\* no upload is under way
RaceIdle ==
  /\ runs = <<>>
  /\ resultOf = <<>>

vars == <<parserVars, analyzeVars, jiraVars, pageVars, buttonVars, rawVars, raceVars>>

\* what a step of the parser leaves alone
outsideParser == <<analyzeVars, jiraVars, pageVars, buttonVars, rawVars, raceVars>>

\* what a step of analyze-report leaves alone
outsideAnalyze == <<parserVars, jiraVars, pageVars, buttonVars, rawVars, raceVars>>

\* what a step of create-jira-issue leaves alone
outsideJira == <<parserVars, analyzeVars, pageVars, buttonVars, rawVars, raceVars>>

\* a variant whose result array outlives the call
StaleTestCases == testCases

\* const testCases: TestCase[] = []
NewTestCases == <<>>

Init ==
  /\ doc \in Documents
  /\ pc = "select"
  /\ testNodes = <<>>
  /\ index = 0
  /\ testCases = <<>>
  /\ origin = <<>>
  /\ now = 0
  /\ run = 1
  /\ first = <<>>
  /\ AnalyzeIdle
  /\ JiraIdle
  /\ PageIdle
  /\ RawIdle
  /\ RaceIdle

\* parseSparkExtentReport, lines 4-41: a fresh result array, the cascade
SelectNodes ==
  /\ pc = "select"
  /\ testNodes' = SelectTestNodes(doc)
  /\ testCases' = NewTestCases
  /\ origin' = IF NewTestCases = <<>> THEN <<>> ELSE origin
  /\ index' = 0
  /\ pc' = "nodes"
  /\ UNCHANGED <<doc, now, run, first>>
  /\ UNCHANGED outsideParser

\* one call of the forEach callback, lines 43-201
VisitNode ==
  /\ pc = "nodes"
  /\ index < Len(testNodes)
  /\ LET ref == testNodes[index + 1]
         tc == BuildTestCase(doc, ref, index, Len(testCases), now)
     IN  IF MeaningfulName(tc.name)
           THEN /\ testCases' = Append(testCases, tc)
                /\ origin' = Append(origin, ref)
           ELSE UNCHANGED <<testCases, origin>>
  /\ index' = index + 1
  /\ UNCHANGED <<doc, pc, testNodes, now, run, first>>
  /\ UNCHANGED outsideParser

\* lines 203-234 when the DOM pass pushed nothing
RegexFallback ==
  /\ pc = "nodes"
  /\ index = Len(testNodes)
  /\ Len(testCases) = 0
  /\ testCases' = FallbackTestCases(doc)
  /\ origin' = [k \in 1..Len(testCases') |-> <<0, 0>>]
  /\ pc' = "done"
  /\ UNCHANGED <<doc, testNodes, index, now, run, first>>
  /\ UNCHANGED outsideParser

\* line 234 when the DOM pass pushed a record
Return ==
  /\ pc = "nodes"
  /\ index = Len(testNodes)
  /\ Len(testCases) > 0
  /\ pc' = "done"
  /\ UNCHANGED <<doc, testNodes, index, testCases, origin, now, run, first>>
  /\ UNCHANGED outsideParser

\* the caller parses the same content again, keeping the first result; the
\* clock new Date() reads may have advanced in between
Reparse ==
  /\ pc = "done"
  /\ run = 1
  /\ first' = testCases
  /\ run' = 2
  /\ pc' = "select"
  /\ now' \in {now, now + 1}
  /\ UNCHANGED <<doc, testNodes, index, testCases, origin>>
  /\ UNCHANGED outsideParser

Next == SelectNodes \/ VisitNode \/ RegexFallback \/ Return \/ Reparse

Spec == Init /\ [][Next]_vars

(***************************************************************************)
(* The claims.  A record's origin is the node it was built from; the       *)
(* records of the regex fallback have origin <<0, 0>>.                     *)
(***************************************************************************)
Returned == pc = "done"

FromFallback(k) == origin[k] = <<0, 0>>

PassCapture == CountMatch(FallbackText(doc), "pass", <<"ed", "">>)

FailCapture == CountMatch(FallbackText(doc), "fail", <<"ed", "ure", "">>)

SkipCapture == CountMatch(FallbackText(doc), "skip", <<"ped", "">>)

NameTokens == TestNameMatches(HtmlContent(doc))

Zero == Num(0, 0)

\* C1: every returned result holds at least one record: when the DOM pass
\* pushed nothing, the regex fallback pushes one or more.
C1_ResultNeverEmpty == Returned => Len(testCases) >= 1

\* candidate nodes existed, none gave a record, and the fallback gave one
C1_Witness ==
  /\ Returned
  /\ Len(testNodes) > 0
  /\ Len(testCases) >= 1
  /\ FromFallback(1)

OnePlaceholder ==
  /\ Len(testCases) = 1
  /\ testCases[1].status = "pass"
  /\ testCases[1].duration = Zero
  /\ testCases[1].name = "Test Case 1"

\* C2 as stated: with no candidate node and no count pattern in the text, the
\* result is exactly one record: pass, duration 0, placeholder name.
C2_AsStated ==
  (Returned /\ Len(testNodes) = 0
     /\ PassCapture = "" /\ FailCapture = "" /\ SkipCapture = "")
    => OnePlaceholder

\* C2 as amended: the same, for inputs that also hold no match of the
\* test-name pattern.
C2_OnePlaceholder ==
  (Returned /\ Len(testNodes) = 0
     /\ PassCapture = "" /\ FailCapture = "" /\ SkipCapture = ""
     /\ Len(NameTokens) = 0)
    => OnePlaceholder

C2_Witness ==
  /\ Returned
  /\ Len(doc) > 0
  /\ Len(testNodes) = 0
  /\ PassCapture = "" /\ FailCapture = "" /\ SkipCapture = ""
  /\ Len(NameTokens) = 0
  /\ OnePlaceholder

\* the statuses of the records are fail for the first f, skip for the next s,
\* pass for the rest
StatusesInOrder(f, s) ==
  \A k \in 1..Len(testCases) :
    testCases[k].status = IF k <= f THEN "fail" ELSE IF k <= f + s THEN "skip" ELSE "pass"

\* C3 as stated: with no candidate node and the counts F, P, S in the text, the
\* result is exactly F + S + P records: F fail, then S skip, then P pass.
C3_AsStated ==
  (Returned /\ Len(testNodes) = 0
     /\ PassCapture /= "" /\ FailCapture /= "" /\ SkipCapture /= "")
    => /\ Len(testCases) = ParseInt(FailCapture) + ParseInt(SkipCapture) + ParseInt(PassCapture)
       /\ StatusesInOrder(ParseInt(FailCapture), ParseInt(SkipCapture))

SpecExample == <<Leaf("p", "", "", "Failed: 3, Passed: 7, Skipped: 2")>>

\* C3 as amended: the result holds max(F + S + P, N, 1) records, N the number
\* of test-name matches in the input: F fail, then S skip, the rest pass; the
\* text "Failed: 3, Passed: 7, Skipped: 2" alone gives 3 fail, 2 skip, 7 pass.
C3_CountsInOrder ==
  /\ (Returned /\ Len(testNodes) = 0
        /\ PassCapture /= "" /\ FailCapture /= "" /\ SkipCapture /= "")
       => LET sum == ParseInt(FailCapture) + ParseInt(SkipCapture) + ParseInt(PassCapture)
              n == Len(NameTokens)
          IN  /\ Len(testCases) >= sum /\ Len(testCases) >= n /\ Len(testCases) >= 1
              /\ Len(testCases) \in {sum, n, 1}
              /\ StatusesInOrder(ParseInt(FailCapture), ParseInt(SkipCapture))
  /\ (Returned /\ doc = SpecExample)
       => /\ Len(testCases) = 12
          /\ StatusesInOrder(3, 2)

C3_Witness ==
  /\ Returned
  /\ doc = SpecExample
  /\ Len(testNodes) = 0
  /\ ParseInt(FailCapture) = 3 /\ ParseInt(SkipCapture) = 2 /\ ParseInt(PassCapture) = 7
  /\ Len(testCases) = 12

\* the badge's own text or class says fail
BadgeSaysFail(e) ==
  \/ Includes(ToLower(TextContent(e)), "fail")
  \/ Includes(ToLower(e.cls), "fail")
  \/ Includes(ToLower(e.cls), "danger")

\* record k comes from a node whose own class, markup and text give pass and
\* whose status badge says fail
PassNodeFailBadge(k) ==
  /\ ~FromFallback(k)
  /\ NodeStatus(Elem(doc, origin[k])) = "pass"
  /\ StatusEl(doc, origin[k]) /= <<>>
  /\ BadgeSaysFail(Elem(doc, StatusEl(doc, origin[k])[1]))

\* C4: a record of a node whose whole-node verdict is pass and whose status
\* badge says fail has status fail.
C4_BadgeWins ==
  Returned => \A k \in 1..Len(testCases) : PassNodeFailBadge(k) => testCases[k].status = "fail"

C4_Witness ==
  Returned /\ \E k \in 1..Len(testCases) : PassNodeFailBadge(k) /\ testCases[k].status = "fail"

\* C5: every returned record has a non-empty name and a status among pass,
\* fail and skip, and a document with a candidate node yields such a record.
C5_NamedAndClassified ==
  Returned =>
    /\ \A k \in 1..Len(testCases) :
         /\ testCases[k].name /= ""
         /\ testCases[k].status \in {"pass", "fail", "skip"}
    /\ Len(testNodes) > 0 => Len(testCases) >= 1

\* a record of the DOM pass that carries the positional placeholder, next to
\* records of a fallback run over a test-name token without a name
C5_Witness ==
  /\ Returned
  /\ \/ /\ Len(testNodes) > 0
        /\ \E k \in 1..Len(testCases) : ~FromFallback(k) /\ testCases[k].name = "Test 2"
     \/ /\ Len(NameTokens) > 0
        /\ \E k \in 1..Len(testCases) : FromFallback(k) /\ testCases[k].name = "Test Case 1"

\* C6: only records with status fail carry an errorMessage or a stackTrace.
C6_ErrorsOnlyOnFail ==
  Returned =>
    \A k \in 1..Len(testCases) :
      testCases[k].status /= "fail"
        => testCases[k].errorMessage = None /\ testCases[k].stackTrace = None

WithoutTimestamp(tc) == [tc EXCEPT !.timestamp = None]

C8_IdsDistinctPositional ==
  Returned =>
    /\ \A j, k \in 1..Len(testCases) : j /= k => testCases[j].id /= testCases[k].id
    /\ \A k \in 1..Len(testCases) :
         IF FromFallback(k)
           THEN testCases[k].id = "extracted-" \o ToString(k)
           ELSE \E n \in 1..Len(testNodes) :
                  testNodes[n] = origin[k] /\ testCases[k].id = "test-" \o ToString(n)

\* two nodes of equal content get different ids, and a node after a dropped one
\* keeps the id of its position
C8_Witness ==
  /\ Returned
  /\ \/ /\ Len(testCases) = 2 /\ ~FromFallback(1)
        /\ Elem(doc, origin[1]) = Elem(doc, origin[2])
        /\ testCases[1].id = "test-1" /\ testCases[2].id = "test-2"
     \/ /\ Len(testCases) = 1 /\ testCases[1].id = "test-2"

Shots(k) == IF testCases[k].screenshots = None THEN <<>> ELSE testCases[k].screenshots[1]

Kids(k) == Elem(doc, origin[k]).kids

\* C9: an image of the node whose source is data:<mime>;base64,<payload> gives
\* a screenshot with that mime type and that payload, and every screenshot is
\* that of an image of the node with such a source.
C9_ScreenshotRoundTrip ==
  Returned =>
    \A k \in 1..Len(testCases) :
      IF FromFallback(k) THEN testCases[k].screenshots = None
      ELSE /\ \A j \in 1..Len(Kids(k)) : \A m \in ImageMimes : \A p \in Payloads :
                (Kids(k)[j].tag = "img" /\ Kids(k)[j].attr = DataUri(m, p))
                  => \E n \in 1..Len(Shots(k)) :
                       Shots(k)[n].mimeType = m /\ Shots(k)[n].base64Data = p
           /\ \A n \in 1..Len(Shots(k)) :
                \E j \in 1..Len(Kids(k)) :
                  /\ Kids(k)[j].tag = "img"
                  /\ Kids(k)[j].attr = DataUri(Shots(k)[n].mimeType, Shots(k)[n].base64Data)

\* a node with an inline image, a linked image and a data URI that is not
\* base64: only the first gives screenshots
C9_Witness ==
  /\ Returned
  /\ \E k \in 1..Len(testCases) :
       /\ ~FromFallback(k)
       /\ \E j \in 1..Len(Kids(k)) : Kids(k)[j].tag = "img" /\ Kids(k)[j].attr = "shots/a.png"
       /\ Len(Shots(k)) > 0
       /\ \A n \in 1..Len(Shots(k)) :
            Shots(k)[n].mimeType = "image/png" /\ Shots(k)[n].base64Data = "/9j/4A=="

\* the child elements of a node that a duration/time-like selector matches
DurationKids(e) ==
  {j \in 1..Len(e.kids) :
     \/ e.kids[j].tokens \cap {"duration", "time", "test-time"} /= {}
     \/ Includes(e.kids[j].cls, "time")}

\* the text of the first of them, "" when there is none
FirstDurationText(e) ==
  IF DurationKids(e) = {} THEN ""
  ELSE e.kids[CHOOSE j \in DurationKids(e) : \A i \in DurationKids(e) : j <= i].text

\* C10: the duration is the number left in the first duration-like element's
\* text: 12.5 for "12.5s", 0 for "abc" and for a missing element, a number that
\* is never negative.
C10_Duration ==
  Returned =>
    \A k \in 1..Len(testCases) :
      /\ ~testCases[k].duration.nan
      /\ testCases[k].duration.mant >= 0
      /\ FromFallback(k) => testCases[k].duration = Zero
      /\ ~FromFallback(k) =>
           LET text == FirstDurationText(Elem(doc, origin[k]))
           IN  /\ text = "" => testCases[k].duration = Zero
               /\ text = "abc" => testCases[k].duration = Zero
               /\ text = "12.5s" => testCases[k].duration = Num(125, 1)
               /\ text = "-3.0 s" => testCases[k].duration = Num(3, 0)

C10_Witness ==
  /\ Returned
  /\ \E k \in 1..Len(testCases) :
       ~FromFallback(k) /\ FirstDurationText(Elem(doc, origin[k])) = "12.5s"
         /\ testCases[k].duration = Num(125, 1)
  /\ \E k \in 1..Len(testCases) :
       ~FromFallback(k) /\ FirstDurationText(Elem(doc, origin[k])) = "abc"
         /\ testCases[k].duration = Zero

\* the scenario's failing node: classed "test fail", with the assertion in a <pre>
ScenarioFail(e) ==
  /\ e.tokens = {"test", "fail"}
  /\ \E j \in 1..Len(e.kids) :
       e.kids[j].tag = "pre" /\ e.kids[j].text = "AssertionError: expected true"

\* the scenario's passing node: classed "test pass", without a status badge
ScenarioPass(e) ==
  /\ e.tokens = {"test", "pass"}
  /\ \A j \in 1..Len(e.kids) :
       e.kids[j].tokens \cap {"status", "badge", "test-status"} = {}

\* the document is the scenario's, its failing node at position f
Scenario(f) ==
  /\ Len(doc) = 2
  /\ ScenarioFail(doc[f])
  /\ ScenarioPass(doc[3 - f])

\* C11: a document of a "test fail" node with <pre>AssertionError: expected
\* true</pre> and a "test pass" node parses to two records: a fail record with
\* exactly that errorMessage and a pass record without an errorMessage.
C11_Scenario ==
  Returned =>
    \A f \in 1..2 :
      Scenario(f) =>
        /\ Len(testCases) = 2
        /\ testCases[f].status = "fail"
        /\ testCases[f].errorMessage = Some("AssertionError: expected true")
        /\ testCases[3 - f].status = "pass"
        /\ testCases[3 - f].errorMessage = None

C11_Witness ==
  /\ Returned
  /\ Scenario(1)
  /\ origin = <<<<1, 0>>, <<2, 0>>>>
  /\ testCases[1].errorMessage = Some("AssertionError: expected true")
  /\ testCases[2].errorMessage = None

\* s holds one of the words
HasAny(s, words) == \E w \in words : Includes(s, w)

\* record k comes from a node without a status or badge sub-element
NoBadge(k) == ~FromFallback(k) /\ StatusEl(doc, origin[k]) = <<>>

ClassOf(k) == ToLower(Elem(doc, origin[k]).cls)

MarkupOf(k) == ToLower(InnerHTML(Elem(doc, origin[k])))

TextOf(k) == ToLower(TextContent(Elem(doc, origin[k])))

\* C20 as stated: without a badge the status is fail if the class, the markup or
\* the text holds fail, error, failed or exception; else skip if one of them
\* holds skip or skipped; else pass.
C20_AsStated ==
  Returned =>
    \A k \in 1..Len(testCases) :
      NoBadge(k) =>
        testCases[k].status =
          IF \E s \in {ClassOf(k), MarkupOf(k), TextOf(k)} :
               HasAny(s, {"fail", "error", "failed", "exception"})
            THEN "fail"
          ELSE IF \E s \in {ClassOf(k), MarkupOf(k), TextOf(k)} : HasAny(s, {"skip", "skipped"})
            THEN "skip"
          ELSE "pass"

FailEvidence(k) ==
  \/ HasAny(ClassOf(k), {"fail", "error"})
  \/ HasAny(MarkupOf(k), {"fail", "error"})
  \/ HasAny(TextOf(k), {"failed", "exception"})

SkipEvidence(k) ==
  \/ Includes(ClassOf(k), "skip")
  \/ Includes(MarkupOf(k), "skip")
  \/ Includes(TextOf(k), "skipped")

\* C20 as amended: without a badge the status is fail if the class or the markup
\* holds fail or error, or the text holds failed or exception; else skip if the
\* class or the markup holds skip or the text holds skipped; else pass.
C20_WholeNodeRules ==
  Returned =>
    \A k \in 1..Len(testCases) :
      NoBadge(k) =>
        testCases[k].status =
          IF FailEvidence(k) THEN "fail" ELSE IF SkipEvidence(k) THEN "skip" ELSE "pass"

\* a node with fail and skip evidence, and a node with skip evidence only
C20_Witness ==
  /\ Returned
  /\ \E k \in 1..Len(testCases) :
       NoBadge(k) /\ FailEvidence(k) /\ SkipEvidence(k) /\ testCases[k].status = "fail"
  /\ \E k \in 1..Len(testCases) :
       NoBadge(k) /\ ~FailEvidence(k) /\ SkipEvidence(k) /\ testCases[k].status = "skip"

(***************************************************************************)
(* The analyze-report function                                             *)
(* (src/supabase/functions/analyze-report/index.ts).                       *)
(*                                                                         *)
(* A JavaScript value that may be undefined is None or Some(v).  The       *)
(* content the gateway returns is a tagged value: undefined, null, a       *)
(* number, or a string; JSON.parse is the table JsonTable on the texts of  *)
(* the pool and throws on every other text.                                *)
(***************************************************************************)
MaxTests == 2

Test(id, name, status, duration, errorMessage) ==
  [id |-> id, name |-> name, className |-> "Test Suite", status |-> status,
   duration |-> duration, errorMessage |-> errorMessage]

TestPool ==
  { Test("test-1", "Login", "fail", Some(90), Some("AssertionError: expected true")),
    Test("test-2", "Checkout", "fail", Some(2), None),
    Test("test-3", "Search", "pass", Some(1), None),
    Test("test-4", "Export", "skip", Some(0), None) }

TestLists == UNION {[1..n -> TestPool] : n \in 0..MaxTests}

\* the request bodies: testCases an array or missing, rawContent a text or empty
AnalyzeRequests ==
  [testCases : {None} \cup {Some(ts) : ts \in TestLists}, rawContent : {"", "raw text"}]

JNull == [kind |-> "null"]

JNumber == [kind |-> "number"]

JUndefined == [kind |-> "undefined"]

JString(str) == [kind |-> "string", str |-> str]

JArray(items) == [kind |-> "array", items |-> items]

\* the object the prompt asks for; a field the text does not hold is None
JAnalysis(extractedTests, failures, summary) ==
  [kind |-> "object", extractedTests |-> extractedTests, failures |-> failures,
   summary |-> summary, patterns |-> None, recommendations |-> None]

\* an item of failures
JFailure(testId, testName, category, confidence) ==
  [kind |-> "object", testId |-> testId, testName |-> testName, rootCause |-> None,
   category |-> category, confidence |-> confidence, evidence |-> None,
   suggestedFix |-> None]

jEmpty == "{}"

jNull == "null"

jNoArray == "{\"failures\":5}"

jOdd ==
  "{\"failures\":[{\"testName\":\"Login\",\"category\":\"infrastructure\",\"confidence\":\"certain\"}]}"

jBare == "{\"failures\":[{}]}"

jNullItem == "{\"failures\":[null]}"

jGood ==
  "{\"extractedTests\":[{\"id\":\"t1\",\"name\":\"Login\",\"status\":\"fail\"}],"
    \o "\"failures\":[{\"testId\":\"t1\",\"category\":\"environment_issue\",\"confidence\":\"high\"}],"
    \o "\"summary\":{\"total\":1,\"passed\":0,\"failed\":1,\"skipped\":0}}"

\* an answer that counts Search among the failures
jDisagree ==
  "{\"failures\":[{\"testName\":\"Search\",\"category\":\"flaky_test\",\"confidence\":\"low\"}],"
    \o "\"summary\":{\"total\":2,\"passed\":0,\"failed\":2,\"skipped\":0}}"

\* JSON.parse on the texts of the pool
JsonTable ==
  << <<jEmpty, JAnalysis(None, None, None)>>,
     <<jNull, JNull>>,
     <<jNoArray, JAnalysis(None, Some(JNumber), None)>>,
     <<jOdd, JAnalysis(None,
                       Some(JArray(<<JFailure(None, Some("Login"), Some("infrastructure"),
                                              Some("certain"))>>)),
                       None)>>,
     <<jBare, JAnalysis(None, Some(JArray(<<JFailure(None, None, None, None)>>)), None)>>,
     <<jNullItem, JAnalysis(None, Some(JArray(<<JNull>>)), None)>>,
     <<jGood, JAnalysis(Some(<<[id |-> "t1", name |-> "Login", className |-> None,
                                status |-> "fail", duration |-> None,
                                errorMessage |-> None]>>),
                        Some(JArray(<<JFailure(Some("t1"), None, Some("environment_issue"),
                                               Some("high"))>>)),
                        Some([total |-> 1, passed |-> 0, failed |-> 1, skipped |-> 0]))>>,
     <<jDisagree, JAnalysis(None,
                            Some(JArray(<<JFailure(None, Some("Search"), Some("flaky_test"),
                                                   Some("low"))>>)),
                            Some([total |-> 2, passed |-> 0, failed |-> 2, skipped |-> 0]))>> >>

\* JSON.parse(text): Some(value), or None when it throws
JSONParse(text) ==
  IF \E k \in 1..Len(JsonTable) : JsonTable[k][1] = text
    THEN Some(JsonTable[CHOOSE k \in 1..Len(JsonTable) : JsonTable[k][1] = text][2])
    ELSE None

\* the code fence of three grave accents; a TLA+ string cannot hold a grave
\* accent, so the texts of the pool write each one as a circumflex
Fence == "^^^"

\* what choices?.[0]?.message?.content can be
ContentPool ==
  { JUndefined, JNull, JNumber,
    JString("I cannot analyze this report."),
    JString(jEmpty), JString(jNull), JString(jNoArray), JString(jBare), JString(jNullItem),
    JString("Result: " \o jOdd \o " Done."),
    JString(Fence \o "json\n" \o jGood \o "\n" \o Fence),
    JString(jDisagree),
    JString(Fence \o "\n{broken\n" \o Fence) }

\* the replies of the gateway: the fetch rejects, or resolves with a status
\* and, when the status is OK, a body that is JSON with a content or is not
GatewayReplies ==
  { [rejected |-> TRUE, status |-> 0, json |-> FALSE, content |-> JUndefined] }
  \cup { [rejected |-> FALSE, status |-> st, json |-> FALSE, content |-> JUndefined] :
           st \in {429, 402, 500, 503, 200} }
  \cup { [rejected |-> FALSE, status |-> 200, json |-> TRUE, content |-> c] : c \in ContentPool }

\* the positions of k in str
Occurrences(str, k) == {i \in 1..Len(str) : StartsAt(str, k, i)}

Least(S) == CHOOSE i \in S : \A j \in S : i <= j

Greatest(S) == CHOOSE i \in S : \A j \in S : j <= i

\* content.match(/<fence>(?:json)?\s*([\s\S]*?)<fence>/): Some(capture) or None
FenceMatch(str) ==
  LET ticks == Occurrences(str, Fence)
      open == {i \in ticks : \E j \in ticks : j >= i + 3}
  IN  IF open = {} THEN None
      ELSE LET i == Least(open)
               body == IF StartsAt(str, "json", i + 3) THEN i + 7 ELSE i + 3
               close == {j \in ticks : j >= body}
           IN  IF close = {}
                 THEN Some(SubSeq(str, i + 3, Least({j \in ticks : j >= i + 3}) - 1))
                 ELSE Some(SubSeq(str, RunEnd(str, body, WhiteSpace), Least(close) - 1))

\* jsonStr.match(/\{[\s\S]*\}/): Some(match) or None
DirectJsonMatch(str) ==
  LET opens == Occurrences(str, "{")
      closes == Occurrences(str, "}")
  IN  IF opens = {} \/ {j \in closes : j > Least(opens)} = {} THEN None
      ELSE Some(SubSeq(str, Least(opens), Greatest(closes)))

\* lines 200-209: the text handed to JSON.parse
JsonStr(str) ==
  LET fence == FenceMatch(str)
      inner == IF fence /= None THEN Trim(fence[1]) ELSE str
      direct == DirectJsonMatch(inner)
  IN  IF direct /= None THEN direct[1] ELSE inner

WithStatus(tests, status) == SelectSeq(tests, LAMBDA t : t.status = status)

\* lines 216-242: the analysis built from the parsed tests
FallbackFailure(t) ==
  [kind |-> "object", testId |-> Some(t.id), testName |-> Some(t.name),
   rootCause |-> IF t.errorMessage /= None /\ t.errorMessage /= Some("")
                   THEN t.errorMessage
                   ELSE Some("Unable to determine root cause - manual review required"),
   category |-> Some("automation_script_defect"),
   confidence |-> Some("low"),
   evidence |-> Some(<<IF t.errorMessage /= None /\ t.errorMessage /= Some("")
                         THEN t.errorMessage[1] ELSE "No error message available">>),
   suggestedFix |-> Some("Review the test implementation and logs manually")]

ManualReview ==
  [priority |-> "high", title |-> "Manual Review Required",
   description |-> "AI analysis encountered parsing issues. Please review the report manually for complete accuracy.",
   actionItems |-> <<"Review each failure manually", "Check test logs for more context">>]

FallbackAnalysis(parsedTests) ==
  LET failedFromParsing == WithStatus(parsedTests, "fail")
  IN  [kind |-> "object",
       extractedTests |-> Some(parsedTests),
       failures |-> Some(JArray([k \in 1..Len(failedFromParsing) |->
                                   FallbackFailure(failedFromParsing[k])])),
       patterns |-> Some(<<>>),
       recommendations |-> Some(<<ManualReview>>),
       summary |-> Some([total |-> Len(parsedTests),
                         passed |-> Len(WithStatus(parsedTests, "pass")),
                         failed |-> Len(failedFromParsing),
                         skipped |-> Len(WithStatus(parsedTests, "skip"))])]

Threw(message) == [threw |-> TRUE, message |-> message]

Value(v) == [threw |-> FALSE, value |-> v]

\* lines 197-243: the try block and its catch; the catch itself throws when
\* content is neither a string nor null nor undefined (content?.substring)
AnalysisResult(content, parsedTests) ==
  IF content.kind = "string"
    THEN LET parsed == JSONParse(JsonStr(content.str))
         IN  Value(IF parsed /= None THEN parsed[1] ELSE FallbackAnalysis(parsedTests))
  ELSE IF content.kind \in {"undefined", "null"}
    THEN Value(FallbackAnalysis(parsedTests))
  ELSE Threw("content?.substring is not a function")

\* a || b for an optional string a
OrDefault(a, b) == IF a = None \/ a = Some("") THEN b ELSE a[1]

\* a || b for numbers
OrNumber(a, b) == IF a = 0 THEN b ELSE a

RECURSIVE TotalDuration(_, _)
\* finalTests.reduce((sum, t) => sum + (t.duration || 0), 0) over the first n
TotalDuration(tests, n) ==
  IF n = 0 THEN 0
  ELSE TotalDuration(tests, n - 1)
         + (IF tests[n].duration = None THEN 0 ELSE tests[n].duration[1])

\* (n / d).toFixed(1) for natural numbers n and d
ToFixed1(n, d) ==
  LET tenths == (20 * n + d) \div (2 * d)
  IN  ToString(tenths \div 10) \o "." \o ToString(tenths % 10)

\* lines 269: the duration text of the summary
DurationLabel(totalDuration) ==
  IF totalDuration > 60 THEN ToFixed1(totalDuration, 60) \o "m"
  ELSE ToFixed1(totalDuration, 1) \o "s"

\* lines 246-273
Summary(analysisResult, finalTests) ==
  LET finalPassed == Len(WithStatus(finalTests, "pass"))
      finalFailed == Len(WithStatus(finalTests, "fail"))
      finalSkipped == Len(WithStatus(finalTests, "skip"))
      summaryData == IF analysisResult.summary /= None THEN analysisResult.summary[1]
                     ELSE [total |-> Len(finalTests), passed |-> finalPassed,
                           failed |-> finalFailed, skipped |-> finalSkipped]
  IN  [total |-> OrNumber(summaryData.total, Len(finalTests)),
       passed |-> OrNumber(summaryData.passed, finalPassed),
       failed |-> OrNumber(summaryData.failed, finalFailed),
       skipped |-> OrNumber(summaryData.skipped, finalSkipped),
       duration |-> DurationLabel(TotalDuration(finalTests, Len(finalTests))),
       passRate |-> IF summaryData.total > 0
                      THEN [num |-> OrNumber(summaryData.passed, finalPassed) * 100,
                            den |-> summaryData.total]
                      ELSE [num |-> 0, den |-> 1]]

\* lines 278-282: finalTests.find(...), Some(test) or None
MatchingTest(f, finalTests) ==
  LET hits == {k \in 1..Len(finalTests) :
                 \/ f.testId = Some(finalTests[k].id)
                 \/ f.testName = Some(finalTests[k].name)
                 \/ /\ f.testName /= None
                    /\ ToLower(finalTests[k].name) = ToLower(f.testName[1])}
  IN  IF hits = {} THEN None ELSE Some(finalTests[Least(hits)])

\* lines 276-302: one item of mappedFailures; idx counts from 0
MappedFailure(f, idx, finalTests) ==
  LET matchingTest == MatchingTest(f, finalTests)
      evidence == IF f.evidence = None THEN <<>> ELSE f.evidence[1]
  IN  [testCase |->
         IF matchingTest /= None THEN matchingTest[1]
         ELSE [id |-> OrDefault(f.testId, "failure-" \o ToString(idx)),
               name |-> OrDefault(f.testName, "Unknown Test"),
               className |-> "Unknown Class",
               status |-> "fail",
               duration |-> Some(0),
               errorMessage |-> IF Len(evidence) > 0 THEN Some(evidence[1]) ELSE None],
       rootCause |-> OrDefault(f.rootCause, "Analysis pending"),
       category |-> OrDefault(f.category, "automation_script_defect"),
       confidence |-> OrDefault(f.confidence, "medium"),
       evidence |-> evidence,
       suggestedFix |-> OrDefault(f.suggestedFix, "Review test implementation")]

\* lines 245-309: the result, or the TypeError thrown on the way
Result(analysisResult, parsedTests) ==
  IF analysisResult.kind = "null"
    THEN Threw("Cannot read properties of null (reading 'extractedTests')")
  ELSE
    LET finalTests == IF analysisResult.extractedTests /= None
                         /\ Len(analysisResult.extractedTests[1]) > 0
                        THEN analysisResult.extractedTests[1] ELSE parsedTests
        failures == IF analysisResult.failures = None THEN JArray(<<>>)
                    ELSE analysisResult.failures[1]
    IN  IF failures.kind /= "array"
          THEN Threw("(analysisResult.failures || []).map is not a function")
        ELSE IF \E k \in 1..Len(failures.items) : failures.items[k].kind = "null"
          THEN Threw("Cannot read properties of null (reading 'testId')")
        ELSE Value([summary |-> Summary(analysisResult, finalTests),
                    failures |-> [k \in 1..Len(failures.items) |->
                                    MappedFailure(failures.items[k], k - 1, finalTests)],
                    patterns |-> IF analysisResult.patterns = None THEN <<>>
                                 ELSE analysisResult.patterns[1],
                    recommendations |-> IF analysisResult.recommendations = None THEN <<>>
                                        ELSE analysisResult.recommendations[1]])

\* response.ok
Ok(status) == status \in 200..299

ErrorResponse(status, error) == [status |-> status, error |-> Some(error), body |-> None]

OkResponse(body) == [status |-> 200, error |-> None, body |-> Some(body)]

\* a variant that hands the gateway's status on
SameStatus(status) == status

\* lines 173-189: the status of the response for a gateway status that is not OK
ErrorStatus(status) ==
  IF status = 429 THEN 429 ELSE IF status = 402 THEN 402 ELSE 500

\* lines 173-189: and its text
ErrorText(status) ==
  IF status = 429 THEN "Rate limit exceeded. Please try again in a moment."
  ELSE IF status = 402 THEN "AI credits exhausted. Please add credits to continue."
  ELSE "AI analysis failed"

\* line 43
ParsedTests == IF analyzeReq.testCases = None THEN <<>> ELSE analyzeReq.testCases[1]

\* line 27
ContentMissing == analyzeReq.rawContent = "" /\ analyzeReq.testCases = None

AnalyzeInit ==
  /\ analyzeReq \in AnalyzeRequests
  /\ LOVABLE_API_KEY \in BOOLEAN
  /\ analyzePc = "request"
  /\ aiResponse = <<>>
  /\ gatewayCalls = 0
  /\ analyzeResponse = <<>>
  /\ ParserIdle
  /\ JiraIdle
  /\ PageIdle
  /\ RawIdle
  /\ RaceIdle

\* lines 27-32
RejectRequest ==
  /\ analyzePc = "request"
  /\ ContentMissing
  /\ analyzeResponse' = ErrorResponse(400, "Report content is required")
  /\ analyzePc' = "done"
  /\ UNCHANGED <<analyzeReq, LOVABLE_API_KEY, aiResponse, gatewayCalls>>
  /\ UNCHANGED outsideAnalyze

\* lines 34-41
NotConfigured ==
  /\ analyzePc = "request"
  /\ ~ContentMissing
  /\ ~LOVABLE_API_KEY
  /\ analyzeResponse' = ErrorResponse(500, "AI service not configured")
  /\ analyzePc' = "done"
  /\ UNCHANGED <<analyzeReq, LOVABLE_API_KEY, aiResponse, gatewayCalls>>
  /\ UNCHANGED outsideAnalyze

\* lines 43-167: the prompt is built and the gateway is called
CallGateway ==
  /\ analyzePc = "request"
  /\ ~ContentMissing
  /\ LOVABLE_API_KEY
  /\ gatewayCalls' = gatewayCalls + 1
  /\ aiResponse' \in GatewayReplies
  /\ analyzePc' = "fetched"
  /\ UNCHANGED <<analyzeReq, LOVABLE_API_KEY, analyzeResponse>>
  /\ UNCHANGED outsideAnalyze

\* the fetch rejects: lines 325-330
FetchRejected ==
  /\ analyzePc = "fetched"
  /\ aiResponse.rejected
  /\ analyzeResponse' = ErrorResponse(500, "error sending request")
  /\ analyzePc' = "done"
  /\ UNCHANGED <<analyzeReq, LOVABLE_API_KEY, aiResponse, gatewayCalls>>
  /\ UNCHANGED outsideAnalyze

\* lines 169-190
GatewayError ==
  /\ analyzePc = "fetched"
  /\ ~aiResponse.rejected
  /\ ~Ok(aiResponse.status)
  /\ analyzeResponse' = ErrorResponse(ErrorStatus(aiResponse.status), ErrorText(aiResponse.status))
  /\ analyzePc' = "done"
  /\ UNCHANGED <<analyzeReq, LOVABLE_API_KEY, aiResponse, gatewayCalls>>
  /\ UNCHANGED outsideAnalyze

\* lines 192-324, and 325-330 for what is thrown on the way
GatewayOk ==
  /\ analyzePc = "fetched"
  /\ ~aiResponse.rejected
  /\ Ok(aiResponse.status)
  /\ analyzeResponse' =
       IF ~aiResponse.json THEN ErrorResponse(500, "Unexpected token in JSON")
       ELSE LET analysisResult == AnalysisResult(aiResponse.content, ParsedTests)
            IN  IF analysisResult.threw THEN ErrorResponse(500, analysisResult.message)
                ELSE LET built == Result(analysisResult.value, ParsedTests)
                     IN  IF built.threw THEN ErrorResponse(500, built.message)
                         ELSE OkResponse(built.value)
  /\ analyzePc' = "done"
  /\ UNCHANGED <<analyzeReq, LOVABLE_API_KEY, aiResponse, gatewayCalls>>
  /\ UNCHANGED outsideAnalyze

AnalyzeNext ==
  RejectRequest \/ NotConfigured \/ CallGateway \/ FetchRejected \/ GatewayError \/ GatewayOk

AnalyzeSpec == AnalyzeInit /\ [][AnalyzeNext]_vars

(***************************************************************************)
(* The claims about analyze-report.                                        *)
(***************************************************************************)
AnalyzeDone == analyzePc = "done"

\* the gateway answered the one call with an OK status
GatewayAnsweredOk ==
  AnalyzeDone /\ gatewayCalls = 1 /\ ~aiResponse.rejected /\ Ok(aiResponse.status)

\* a parsed value with the shape the prompt asks for: an object whose failures
\* are an array of objects
ExpectedShape(v) ==
  /\ v.kind = "object"
  /\ v.failures /= None
  /\ v.failures[1].kind = "array"
  /\ \A k \in 1..Len(v.failures[1].items) : v.failures[1].items[k].kind = "object"

\* the content of the reply is missing, is not JSON, or is JSON of another shape
Malformed ==
  /\ aiResponse.json
  /\ \/ aiResponse.content.kind /= "string"
     \/ JSONParse(JsonStr(aiResponse.content.str)) = None
     \/ ~ExpectedShape(JSONParse(JsonStr(aiResponse.content.str))[1])

\* body is the fallback analysis of the parsed tests
IsFallbackAnalysis(body) ==
  LET failed == WithStatus(ParsedTests, "fail")
  IN  /\ Len(body.failures) = Len(failed)
      /\ \A k \in 1..Len(failed) :
           /\ body.failures[k].testCase.id = failed[k].id
           /\ body.failures[k].category = "automation_script_defect"
           /\ body.failures[k].confidence = "low"
      /\ body.patterns = <<>>
      /\ Len(body.recommendations) = 1
      /\ body.recommendations[1].title = "Manual Review Required"
      /\ body.summary.total = Len(ParsedTests)
      /\ body.summary.failed = Len(failed)
      /\ body.summary.passed = Len(WithStatus(ParsedTests, "pass"))
      /\ body.summary.skipped = Len(WithStatus(ParsedTests, "skip"))

DefectCategories ==
  {"application_defect", "automation_script_defect", "test_data_issue",
   "environment_issue", "configuration_issue", "flaky_test"}

ConfidenceLevels == {"high", "medium", "low"}

\* C18: every failure of a successful response has one of the six defect
\* categories and a confidence among high, medium and low.
C18_FixedLabels ==
  (AnalyzeDone /\ analyzeResponse.body /= None)
    => \A k \in 1..Len(analyzeResponse.body[1].failures) :
         /\ analyzeResponse.body[1].failures[k].category \in DefectCategories
         /\ analyzeResponse.body[1].failures[k].confidence \in ConfidenceLevels

(***************************************************************************)
(* The create-jira-issue function                                          *)
(* (src/supabase/functions/create-jira-issue/index.ts).                    *)
(***************************************************************************)
MaxShots == 2

Base64Alphabet ==
  {CharAt(Upper, i) : i \in 1..26} \cup {CharAt(Lower, i) : i \in 1..26} \cup Digits
    \cup {"+", "/"}

\* str without its trailing "=" signs, two at most
RECURSIVE StripPadding(_, _)
StripPadding(str, n) ==
  IF n > 0 /\ str /= "" /\ CharAt(str, Len(str)) = "="
    THEN StripPadding(SubSeq(str, 1, Len(str) - 1), n - 1)
    ELSE str

\* str without the characters of cs
RECURSIVE DropChars(_, _, _)
DropChars(str, i, cs) ==
  IF i > Len(str) THEN ""
  ELSE (IF CharAt(str, i) \in cs THEN "" ELSE CharAt(str, i)) \o DropChars(str, i + 1, cs)

\* atob(str) returns (TRUE) or throws InvalidCharacterError (FALSE)
AtobDecodes(str) ==
  LET data == DropChars(str, 1, WhiteSpace)
      body == IF Len(data) % 4 = 0 THEN StripPadding(data, 2) ELSE data
  IN  /\ Len(body) % 4 /= 1
      /\ \A i \in 1..Len(body) : CharAt(body, i) \in Base64Alphabet

ScreenshotPool ==
  { [name |-> "login.png", base64Data |-> "QUJD", mimeType |-> "image/png"],
    [name |-> "cart.jpg", base64Data |-> "/9j/4A==", mimeType |-> "image/jpeg"],
    [name |-> "broken.png", base64Data |-> "%%%", mimeType |-> "image/png"],
    [name |-> "cut.png", base64Data |-> "QUJD\nR", mimeType |-> "image/png"] }

ScreenshotLists == UNION {[1..n -> ScreenshotPool] : n \in 0..MaxShots}

\* the request bodies: credentials complete or not, with or without a trailing
\* slash on baseUrl; failure present or not, its test case with screenshots or
\* without the field; summary a text or empty
JiraRequests ==
  [credentials : {None, Some("https://acme.atlassian.net"), Some("https://acme.atlassian.net/")},
   failure : {None, Some(None)} \cup {Some(Some(shots)) : shots \in ScreenshotLists},
   summary : {"", "Test Failure: Login"}]

eFields ==
  "{\"errorMessages\":[],\"errors\":{\"summary\":\"Summary is required\",\"priority\":\"Priority is invalid\"}}"

eMessages == "{\"errorMessages\":[\"Issue type is invalid\"],\"errors\":{}}"

eOnlyMessages == "{\"errorMessages\":[\"No permission\",\"Login required\"]}"

eOther == "{\"message\":\"Not found\"}"

\* JSON.parse on the error bodies of the pool
ErrorJsonTable ==
  << <<eFields, [errors |-> Some(<<"Summary is required", "Priority is invalid">>),
                 errorMessages |-> Some(<<>>)]>>,
     <<eMessages, [errors |-> Some(<<>>), errorMessages |-> Some(<<"Issue type is invalid">>)]>>,
     <<eOnlyMessages, [errors |-> None,
                       errorMessages |-> Some(<<"No permission", "Login required">>)]>>,
     <<eOther, [errors |-> None, errorMessages |-> None]>> >>

\* JSON.parse(errorText): Some(value), or None when it throws
ErrorJson(errorText) ==
  IF \E k \in 1..Len(ErrorJsonTable) : ErrorJsonTable[k][1] = errorText
    THEN Some(ErrorJsonTable[CHOOSE k \in 1..Len(ErrorJsonTable) :
                               ErrorJsonTable[k][1] = errorText][2])
    ELSE None

ErrorBodies == {eFields, eMessages, eOnlyMessages, eOther, "Service Unavailable", ""}

\* the tracker's replies to the creation: the fetch rejects, or resolves with a
\* status and a body; an OK body is the created issue or is not JSON
TrackerReplies ==
  { [rejected |-> TRUE, status |-> 0, text |-> "", issue |-> None] }
  \cup { [rejected |-> FALSE, status |-> st, text |-> body, issue |-> None] :
           st \in {400, 401}, body \in ErrorBodies }
  \cup { [rejected |-> FALSE, status |-> 201, text |-> "", issue |-> i] :
           i \in {None, Some([key |-> "QA-7", id |-> "10007"])} }

\* Array.prototype.join
RECURSIVE Join(_, _)
Join(strs, sep) ==
  IF Len(strs) = 0 THEN ""
  ELSE IF Len(strs) = 1 THEN strs[1]
  ELSE Join(SubSeq(strs, 1, Len(strs) - 1), sep) \o sep \o strs[Len(strs)]

\* lines 128-138: the text returned for a rejected creation
ErrorMessage(errorText) ==
  LET errorJson == ErrorJson(errorText)
  IN  IF errorJson = None
        THEN (IF errorText /= "" THEN errorText ELSE "Unknown error")
      ELSE IF errorJson[1].errors /= None THEN Join(errorJson[1].errors[1], ", ")
      ELSE IF errorJson[1].errorMessages /= None
        THEN Join(errorJson[1].errorMessages[1], ", ")
      ELSE "Failed to create JIRA issue"

\* line 69: baseUrl.replace(/\/$/, '')
CleanBaseUrl(baseUrl) ==
  IF baseUrl /= "" /\ CharAt(baseUrl, Len(baseUrl)) = "/"
    THEN SubSeq(baseUrl, 1, Len(baseUrl) - 1) ELSE baseUrl

\* line 153: failure.testCase?.screenshots || []
Screenshots ==
  IF jiraReq.failure = None \/ jiraReq.failure[1] = None THEN <<>>
  ELSE jiraReq.failure[1][1]

\* what can happen to one screenshot: atob throws, the fetch rejects, the
\* tracker answers OK or not
AttachOutcomes(screenshot) ==
  IF AtobDecodes(screenshot.base64Data) THEN {"rejected", "ok", "not ok"}
  ELSE {"undecodable"}

\* a variant that records the name whatever the tracker answered
AttachedAlways(results, screenshot, outcome) ==
  IF outcome \in {"ok", "not ok"} THEN Append(results, screenshot.name) ELSE results

\* lines 175-183: attachmentResults after one screenshot
Attached(results, screenshot, outcome) ==
  IF outcome = "ok" THEN Append(results, screenshot.name) ELSE results

JiraInit ==
  /\ jiraReq \in JiraRequests
  /\ jiraPc = "request"
  /\ createResponse = <<>>
  /\ attachmentResults = <<>>
  /\ attachLog = <<>>
  /\ jiraResponse = <<>>
  /\ ParserIdle
  /\ AnalyzeIdle
  /\ PageIdle
  /\ RawIdle
  /\ RaceIdle

\* lines 51-56
RejectCredentials ==
  /\ jiraPc = "request"
  /\ jiraReq.credentials = None
  /\ jiraResponse' = ErrorResponse(400, "JIRA credentials are required")
  /\ jiraPc' = "done"
  /\ UNCHANGED <<jiraReq, createResponse, attachmentResults, attachLog>>
  /\ UNCHANGED outsideJira

\* lines 58-63
RejectFailure ==
  /\ jiraPc = "request"
  /\ jiraReq.credentials /= None
  /\ jiraReq.failure = None \/ jiraReq.summary = ""
  /\ jiraResponse' = ErrorResponse(400, "Failure details and summary are required")
  /\ jiraPc' = "done"
  /\ UNCHANGED <<jiraReq, createResponse, attachmentResults, attachLog>>
  /\ UNCHANGED outsideJira

\* lines 65-122: the issue is posted to the tracker
CreateIssue ==
  /\ jiraPc = "request"
  /\ jiraReq.credentials /= None
  /\ jiraReq.failure /= None /\ jiraReq.summary /= ""
  /\ createResponse' \in TrackerReplies
  /\ jiraPc' = "posted"
  /\ UNCHANGED <<jiraReq, attachmentResults, attachLog, jiraResponse>>
  /\ UNCHANGED outsideJira

\* the fetch rejects, or the body of an OK reply is not JSON: lines 197-203
CreateThrows ==
  /\ jiraPc = "posted"
  /\ \/ createResponse.rejected
     \/ Ok(createResponse.status) /\ createResponse.issue = None
  /\ jiraResponse' = ErrorResponse(500, IF createResponse.rejected THEN "error sending request"
                                        ELSE "Unexpected end of JSON input")
  /\ jiraPc' = "done"
  /\ UNCHANGED <<jiraReq, createResponse, attachmentResults, attachLog>>
  /\ UNCHANGED outsideJira

\* lines 124-144
CreateRefused ==
  /\ jiraPc = "posted"
  /\ ~createResponse.rejected
  /\ ~Ok(createResponse.status)
  /\ jiraResponse' = ErrorResponse(createResponse.status, ErrorMessage(createResponse.text))
  /\ jiraPc' = "done"
  /\ UNCHANGED <<jiraReq, createResponse, attachmentResults, attachLog>>
  /\ UNCHANGED outsideJira

\* lines 146-154
IssueCreated ==
  /\ jiraPc = "posted"
  /\ ~createResponse.rejected
  /\ Ok(createResponse.status)
  /\ createResponse.issue /= None
  /\ attachmentResults' = <<>>
  /\ jiraPc' = "attaching"
  /\ UNCHANGED <<jiraReq, createResponse, attachLog, jiraResponse>>
  /\ UNCHANGED outsideJira

\* one turn of the loop, lines 156-184
Attach ==
  /\ jiraPc = "attaching"
  /\ Len(attachLog) < Len(Screenshots)
  /\ LET screenshot == Screenshots[Len(attachLog) + 1]
     IN  \E outcome \in AttachOutcomes(screenshot) :
           /\ attachmentResults' = Attached(attachmentResults, screenshot, outcome)
           /\ attachLog' = Append(attachLog, outcome)
  /\ UNCHANGED <<jiraReq, jiraPc, createResponse, jiraResponse>>
  /\ UNCHANGED outsideJira

\* lines 186-195
RespondCreated ==
  /\ jiraPc = "attaching"
  /\ Len(attachLog) = Len(Screenshots)
  /\ jiraResponse' =
       OkResponse([success |-> TRUE,
                   issueKey |-> createResponse.issue[1].key,
                   issueId |-> createResponse.issue[1].id,
                   issueUrl |-> CleanBaseUrl(jiraReq.credentials[1]) \o "/browse/"
                                  \o createResponse.issue[1].key,
                   attachments |-> attachmentResults])
  /\ jiraPc' = "done"
  /\ UNCHANGED <<jiraReq, createResponse, attachmentResults, attachLog>>
  /\ UNCHANGED outsideJira

JiraNext ==
  \/ RejectCredentials \/ RejectFailure \/ CreateIssue \/ CreateThrows \/ CreateRefused
  \/ IssueCreated \/ Attach \/ RespondCreated

JiraSpec == JiraInit /\ [][JiraNext]_vars

(***************************************************************************)
(* The claims about create-jira-issue.                                     *)
(***************************************************************************)
JiraDone == jiraPc = "done"

\* the names of the first n screenshots whose attachment call succeeded
RECURSIVE SucceededNames(_)
SucceededNames(n) ==
  IF n = 0 THEN <<>>
  ELSE SucceededNames(n - 1)
         \o (IF attachLog[n] = "ok" THEN <<Screenshots[n].name>> ELSE <<>>)

\* C12: once the issue is created every screenshot is attempted in turn,
\* whatever happened to the ones before, and the response is a success with the
\* issue key, its URL and the names of the screenshots that were attached.
C12_AttachmentsIndependent ==
  /\ jiraPc = "attaching" =>
       /\ Len(attachLog) <= Len(Screenshots)
       /\ attachmentResults = SucceededNames(Len(attachLog))
  /\ (JiraDone /\ createResponse /= <<>> /\ ~createResponse.rejected
        /\ Ok(createResponse.status) /\ createResponse.issue /= None)
       => /\ Len(attachLog) = Len(Screenshots)
          /\ jiraResponse.status = 200
          /\ jiraResponse.body /= None
          /\ jiraResponse.body[1].success
          /\ jiraResponse.body[1].issueKey = "QA-7"
          /\ jiraResponse.body[1].issueUrl = "https://acme.atlassian.net/browse/QA-7"
          /\ jiraResponse.body[1].attachments = SucceededNames(Len(Screenshots))

\* a failed attachment followed by one that succeeds
C12_Witness ==
  /\ JiraDone
  /\ Len(attachLog) = 2
  /\ attachLog[1] \in {"undecodable", "rejected", "not ok"}
  /\ attachLog[2] = "ok"
  /\ jiraResponse.body /= None
  /\ jiraResponse.body[1].attachments = <<Screenshots[2].name>>

\* the tracker refused the creation with a body that parses as JSON
RefusedWithJson ==
  /\ JiraDone
  /\ createResponse /= <<>>
  /\ ~createResponse.rejected
  /\ ~Ok(createResponse.status)
  /\ ErrorJson(createResponse.text) /= None

\* the texts of a field of the parsed body, <<>> when it is absent
TextsOf(field) == IF field = None THEN <<>> ELSE field[1]

\* C15: when the tracker refuses the creation with a JSON body, the error
\* returned is the tracker's text: the values of errors, or errorMessages when
\* the messages are there; the status is the tracker's and nothing is attached.
C15_TrackerText ==
  RefusedWithJson =>
    LET body == ErrorJson(createResponse.text)[1]
    IN  /\ jiraResponse.status = createResponse.status
        /\ attachLog = <<>>
        /\ Len(TextsOf(body.errors)) > 0
             => jiraResponse.error = Some(Join(TextsOf(body.errors), ", "))
        /\ (Len(TextsOf(body.errors)) = 0 /\ Len(TextsOf(body.errorMessages)) > 0)
             => jiraResponse.error = Some(Join(TextsOf(body.errorMessages), ", "))
        /\ (Len(TextsOf(body.errors)) = 0 /\ Len(TextsOf(body.errorMessages)) = 0)
             => jiraResponse.error = Some("Failed to create JIRA issue")

(***************************************************************************)
(* The page: FileUpload.handleFile (src/src/components/FileUpload.tsx),    *)
(* Index.handleFileSelect and handleReset (src/src/pages/Index.tsx) and    *)
(* CreateJiraIssueButton.handleCreate                                      *)
(* (src/src/components/CreateJiraIssueButton.tsx).  The two functions the  *)
(* page invokes are seen from the page as the reply of                     *)
(* supabase.functions.invoke: {data, error}.                               *)
(***************************************************************************)
MaxUploads == 2

\* 50 * 1024 * 1024
MaxFileSize == 52428800

EndsWith(str, suffix) ==
  Len(suffix) <= Len(str) /\ SubSeq(str, Len(str) - Len(suffix) + 1, Len(str)) = suffix

\* a variant that ignores the case of the name
AcceptedNameAnyCase(name) ==
  EndsWith(ToLower(name), ".html") \/ EndsWith(ToLower(name), ".htm")

\* FileUpload.tsx line 20
AcceptedName(name) == EndsWith(name, ".html") \/ EndsWith(name, ".htm")

\* FileUpload.tsx line 25
AcceptedSize(size) == ~(size > MaxFileSize)

FilePool ==
  [name : {"report.html", "index.htm", "REPORT.HTML", "notes.txt", "html"},
   size : {0, MaxFileSize, MaxFileSize + 1}]

\* the contents of the uploaded file: empty, without any test-case node (with
\* and without counts), with test-case nodes
UploadedReports ==
  { <<>>,
    <<Leaf("p", "", "", "Hello report")>>,
    <<Leaf("p", "", "", "Failed: 3, Passed: 7, Skipped: 2")>>,
    <<Node("div", "test fail", "", <<kName, kPreAssert>>)>>,
    <<Node("div", "test pass", "", <<kName>>), Leaf("p", "", "", "Hello report")>> }

Toast(title, variant) == [title |-> title, variant |-> variant]

\* a failure of the result: the id of its test case, its category, and the
\* key of the issue created for it
Failure(testId, category) ==
  [testCase |-> [id |-> testId], category |-> category, jiraIssueKey |-> None]

\* the replies of invoke('analyze-report'): an error, or data that carries an
\* error, its failures and its summary, or no failures array; or no data.  Two
\* failures carry the same test case when analyze-report matched both to one
\* test (analyze-report/index.ts lines 278-284).
AnalyzeReplies ==
  { [error |-> Some("Edge Function returned a non-2xx status code"), data |-> None],
    [error |-> None, data |-> None],
    [error |-> None,
     data |-> Some([error |-> Some("AI service not configured"), failures |-> None,
                    summary |-> None])],
    [error |-> None, data |-> Some([error |-> None, failures |-> None, summary |-> None])],
    [error |-> None,
     data |-> Some([error |-> None, failures |-> Some(<<>>),
                    summary |-> Some([total |-> 1, failed |-> 0])])],
    [error |-> None,
     data |-> Some([error |-> None,
                    failures |-> Some(<<Failure("test-1", "flaky_test"),
                                        Failure("test-2", "application_defect")>>),
                    summary |-> Some([total |-> 2, failed |-> 2])])],
    [error |-> None,
     data |-> Some([error |-> None,
                    failures |-> Some(<<Failure("test-1", "application_defect"),
                                        Failure("test-1", "application_defect"),
                                        Failure("test-2", "application_defect")>>),
                    summary |-> Some([total |-> 2, failed |-> 2])])] }

\* the replies of invoke('create-jira-issue')
CreateReplies ==
  { [error |-> Some("Edge Function returned a non-2xx status code"), data |-> None],
    [error |-> None, data |-> None],
    [error |-> None, data |-> Some([error |-> Some("Issue type is invalid"), issueKey |-> None])],
    [error |-> None, data |-> Some([error |-> None, issueKey |-> Some("QA-7")])] }

\* a variant that does not look at the error the data carries
ThrowsWithoutData(reply) == IF reply.error /= None THEN TRUE ELSE reply.data = None

\* Index.tsx lines 52-58, CreateJiraIssueButton.tsx lines 62-63: the reply makes
\* the handler throw (reading data.error of a null data throws as well)
Throws(reply) ==
  IF reply.error /= None THEN TRUE
  ELSE IF reply.data = None THEN TRUE
  ELSE reply.data[1].error /= None

\* the upload widget is rendered and enabled (Index.tsx line 113)
CanUpload ==
  /\ pagePc \in {"upload", "rejected", "done"}
  /\ result = None
  /\ ~isLoading
  /\ selected < MaxUploads

UiInit ==
  /\ doc \in UploadedReports
  /\ pc = "off"
  /\ testNodes = <<>>
  /\ index = 0
  /\ testCases = <<>>
  /\ origin = <<>>
  /\ now = 0
  /\ run = 1
  /\ first = <<>>
  /\ AnalyzeIdle
  /\ JiraIdle
  /\ RawIdle
  /\ RaceIdle
  /\ file \in FilePool
  /\ fileName = None
  /\ uploadError = None
  /\ selected = 0
  /\ pagePc = "upload"
  /\ isLoading = FALSE
  /\ result = None
  /\ toasts = <<>>
  /\ invocations = 0
  /\ invokeReply = <<>>
  /\ credentials \in BOOLEAN
  /\ clicked = 0
  /\ buttonPc = "idle"
  /\ isCreating = FALSE
  /\ createdIssue = None
  /\ createReply = <<>>

parserLocals == <<doc, testNodes, index, testCases, origin, now, run, first>>

\* FileUpload.tsx lines 18-23
RejectType ==
  /\ CanUpload
  /\ ~AcceptedName(file.name)
  /\ uploadError' = Some("Please upload an HTML file (.html or .htm)")
  /\ pagePc' = "rejected"
  /\ UNCHANGED <<file, fileName, selected, isLoading, result, toasts, invocations, invokeReply>>
  /\ UNCHANGED <<pc, parserLocals, analyzeVars, jiraVars, rawVars, raceVars, buttonVars>>

\* FileUpload.tsx lines 18-28
RejectSize ==
  /\ CanUpload
  /\ AcceptedName(file.name)
  /\ ~AcceptedSize(file.size)
  /\ uploadError' = Some("File size exceeds 50MB limit")
  /\ pagePc' = "rejected"
  /\ UNCHANGED <<file, fileName, selected, isLoading, result, toasts, invocations, invokeReply>>
  /\ UNCHANGED <<pc, parserLocals, analyzeVars, jiraVars, rawVars, raceVars, buttonVars>>

\* FileUpload.tsx lines 18-40: the file is handed to the reader
ReadFile ==
  /\ CanUpload
  /\ AcceptedName(file.name)
  /\ AcceptedSize(file.size)
  /\ uploadError' = None
  /\ pagePc' = "reading"
  /\ UNCHANGED <<file, fileName, selected, isLoading, result, toasts, invocations, invokeReply>>
  /\ UNCHANGED <<pc, parserLocals, analyzeVars, jiraVars, rawVars, raceVars, buttonVars>>

\* FileUpload.tsx lines 37-39
ReaderError ==
  /\ pagePc = "reading"
  /\ uploadError' = Some("Failed to read file")
  /\ pagePc' = "rejected"
  /\ UNCHANGED <<file, fileName, selected, isLoading, result, toasts, invocations, invokeReply>>
  /\ UNCHANGED <<pc, parserLocals, analyzeVars, jiraVars, rawVars, raceVars, buttonVars>>

\* FileUpload.tsx lines 33-36 and Index.tsx lines 24-34: onFileSelect runs
\* handleFileSelect up to the call of the parser
ReaderLoad ==
  /\ pagePc = "reading"
  /\ selected' = selected + 1
  /\ isLoading' = TRUE
  /\ result' = None
  /\ fileName' = Some(file.name)
  /\ pc' = "select"
  /\ pagePc' = "parsing"
  /\ UNCHANGED <<file, uploadError, toasts, invocations, invokeReply>>
  /\ UNCHANGED <<parserLocals, analyzeVars, jiraVars, rawVars, raceVars, buttonVars>>

\* Index.tsx lines 37-50: the notice for an empty list, then the invocation
InvokeAnalysis ==
  /\ pagePc = "parsing"
  /\ pc = "done"
  /\ toasts' = IF Len(testCases) = 0
                 THEN Append(toasts, Toast("No test cases found", "default"))
                 ELSE toasts
  /\ invocations' = invocations + 1
  /\ pagePc' = "invoking"
  /\ UNCHANGED <<file, fileName, uploadError, selected, isLoading, result, invokeReply>>
  /\ UNCHANGED <<pc, parserLocals, analyzeVars, jiraVars, rawVars, raceVars, buttonVars>>

\* the promise of invoke settles
AnalysisSettles ==
  /\ pagePc = "invoking"
  /\ invokeReply' \in AnalyzeReplies
  /\ pagePc' = "settled"
  /\ UNCHANGED <<file, fileName, uploadError, selected, isLoading, result, toasts, invocations>>
  /\ UNCHANGED <<pc, parserLocals, analyzeVars, jiraVars, rawVars, raceVars, buttonVars>>

\* Index.tsx lines 52-58 and 73-82
AnalysisFailed ==
  /\ pagePc = "settled"
  /\ Throws(invokeReply)
  /\ toasts' = Append(toasts, Toast("Analysis Failed", "destructive"))
  /\ isLoading' = FALSE
  /\ pagePc' = "done"
  /\ UNCHANGED <<file, fileName, uploadError, selected, result, invocations, invokeReply>>
  /\ UNCHANGED <<pc, parserLocals, analyzeVars, jiraVars, rawVars, raceVars, buttonVars>>

\* Index.tsx lines 60-72 and 80-82; data.failures.filter on line 67 throws
\* when the data has no failures, after the result is set
AnalysisComplete ==
  /\ pagePc = "settled"
  /\ ~Throws(invokeReply)
  /\ result' = invokeReply.data
  /\ toasts' = Append(toasts, IF invokeReply.data[1].failures = None
                                THEN Toast("Analysis Failed", "destructive")
                                ELSE Toast("Analysis Complete", "default"))
  /\ isLoading' = FALSE
  /\ pagePc' = "done"
  /\ UNCHANGED <<file, fileName, uploadError, selected, invocations, invokeReply>>
  /\ UNCHANGED <<pc, parserLocals, analyzeVars, jiraVars, rawVars, raceVars, buttonVars>>

\* the card of the k-th failure of the result shows the button
\* (CreateJiraIssueButton.tsx lines 89 and 94)
CardButton(k) ==
  /\ pagePc = "done"
  /\ result /= None
  /\ IF result[1].failures = None THEN FALSE
     ELSE /\ k \in 1..Len(result[1].failures[1])
          /\ result[1].failures[1][k].category = "application_defect"
          /\ result[1].failures[1][k].jiraIssueKey = None

\* a failure card of the result shows the button
ButtonShown == \E k \in 1..3 : CardButton(k)

\* Index.tsx lines 90-105: the result after handleJiraIssueCreated
HandleJiraIssueCreated(prev, testId, issueKey) ==
  IF prev = None THEN prev
  ELSE Some([prev[1] EXCEPT !.failures =
               Some([k \in 1..Len(prev[1].failures[1]) |->
                       IF prev[1].failures[1][k].testCase.id = testId
                         THEN [prev[1].failures[1][k] EXCEPT !.jiraIssueKey = issueKey]
                         ELSE prev[1].failures[1][k]])])

\* Index.tsx lines 84-87; the failure cards and their buttons go with the result
HandleReset ==
  /\ pagePc = "done"
  /\ result /= None
  /\ buttonPc \in {"idle", "done"}
  /\ result' = None
  /\ fileName' = None
  /\ clicked' = 0
  /\ buttonPc' = "idle"
  /\ isCreating' = FALSE
  /\ createdIssue' = None
  /\ createReply' = <<>>
  /\ UNCHANGED <<file, uploadError, selected, pagePc, isLoading, toasts, invocations,
                 invokeReply, credentials>>
  /\ UNCHANGED <<pc, parserLocals, analyzeVars, jiraVars, rawVars, raceVars>>

\* CreateJiraIssueButton.tsx line 48
CreateWithoutCredentials ==
  /\ ButtonShown
  /\ buttonPc = "idle"
  /\ ~credentials
  /\ buttonPc' = "done"
  /\ UNCHANGED <<credentials, clicked, isCreating, createdIssue, createReply>>
  /\ UNCHANGED <<pc, parserLocals, analyzeVars, jiraVars, rawVars, raceVars, pageVars>>

\* CreateJiraIssueButton.tsx lines 48-60, on the card of one failure
InvokeCreate ==
  /\ buttonPc = "idle"
  /\ credentials
  /\ \E k \in 1..3 : CardButton(k) /\ clicked' = k
  /\ isCreating' = TRUE
  /\ buttonPc' = "invoking"
  /\ UNCHANGED <<credentials, createdIssue, createReply>>
  /\ UNCHANGED <<pc, parserLocals, analyzeVars, jiraVars, rawVars, raceVars, pageVars>>

\* the promise of invoke settles
CreateSettles ==
  /\ buttonPc = "invoking"
  /\ createReply' \in CreateReplies
  /\ buttonPc' = "settled"
  /\ UNCHANGED <<credentials, clicked, isCreating, createdIssue>>
  /\ UNCHANGED <<pc, parserLocals, analyzeVars, jiraVars, rawVars, raceVars, pageVars>>

\* CreateJiraIssueButton.tsx lines 62-63 and 77-85
CreateFailed ==
  /\ buttonPc = "settled"
  /\ Throws(createReply)
  /\ toasts' = Append(toasts, Toast("Failed to Create Issue", "destructive"))
  /\ isCreating' = FALSE
  /\ buttonPc' = "done"
  /\ UNCHANGED <<credentials, clicked, createdIssue, createReply>>
  /\ UNCHANGED <<file, fileName, uploadError, selected, pagePc, isLoading, result, invocations, invokeReply>>
  /\ UNCHANGED <<pc, parserLocals, analyzeVars, jiraVars, rawVars, raceVars>>

\* CreateJiraIssueButton.tsx lines 65-76 and 83-85; onIssueCreated on line 70
\* is handleJiraIssueCreated with the id of the card's test case (Index.tsx
\* line 192)
CreateComplete ==
  /\ buttonPc = "settled"
  /\ ~Throws(createReply)
  /\ createdIssue' = createReply.data[1].issueKey
  /\ result' = HandleJiraIssueCreated(result, result[1].failures[1][clicked].testCase.id,
                                      createReply.data[1].issueKey)
  /\ toasts' = Append(toasts, Toast("JIRA Issue Created", "default"))
  /\ isCreating' = FALSE
  /\ buttonPc' = "done"
  /\ UNCHANGED <<credentials, clicked, createReply>>
  /\ UNCHANGED <<file, fileName, uploadError, selected, pagePc, isLoading, invocations,
                 invokeReply>>
  /\ UNCHANGED <<pc, parserLocals, analyzeVars, jiraVars, rawVars, raceVars>>

\* the continuation of handleFileSelect after the await
PageContinues == AnalysisFailed \/ AnalysisComplete

\* the continuation of handleCreate after the await
ButtonContinues == CreateFailed \/ CreateComplete

UiNext ==
  \/ RejectType \/ RejectSize \/ ReadFile \/ ReaderError \/ ReaderLoad
  \/ SelectNodes \/ VisitNode \/ RegexFallback \/ Return
  \/ InvokeAnalysis \/ AnalysisSettles \/ AnalysisFailed \/ AnalysisComplete
  \/ HandleReset \/ CreateWithoutCredentials \/ InvokeCreate \/ CreateSettles
  \/ CreateFailed \/ CreateComplete

UiSpec == UiInit /\ [][UiNext]_vars

\* a continuation whose promise has settled is run by the event loop
UiFairSpec == UiSpec /\ WF_vars(PageContinues) /\ WF_vars(ButtonContinues)

(***************************************************************************)
(* The claims about the page.                                              *)
(***************************************************************************)
\* C16: the content of a file reaches onFileSelect only if its name ends with
\* .html or .htm and its size is at most 50MB; for any other file an error is
\* shown, onFileSelect is not called and no analysis starts.
C16_OnlyHtmlUpTo50MB ==
  /\ selected > 0 =>
       /\ EndsWith(file.name, ".html") \/ EndsWith(file.name, ".htm")
       /\ file.size <= 50 * 1024 * 1024
  /\ ~(/\ EndsWith(file.name, ".html") \/ EndsWith(file.name, ".htm")
       /\ file.size <= 50 * 1024 * 1024) =>
       /\ selected = 0
       /\ invocations = 0
       /\ pc = "off"
       /\ ~isLoading
       /\ pagePc /= "upload" => (pagePc = "rejected" /\ uploadError /= None)

\* a file of exactly 50MB was handed over and its analysis was invoked
C16_Witness ==
  /\ selected > 0
  /\ invocations > 0
  /\ file.size = 50 * 1024 * 1024
  /\ file.name = "index.htm"

\* the parse of the uploaded content came from the regex fallback
TotalStructureMiss ==
  /\ pc = "done"
  /\ testNodes = <<>>
  /\ \A k \in 1..Len(testCases) : FromFallback(k)

HasToast(title, variant) ==
  \E k \in 1..Len(toasts) : toasts[k] = Toast(title, variant)

\* C17: when the uploaded document has no test-case node at all, the user is
\* shown an informational notice and the analysis proceeds to the remote call.
C17_NoticeOnStructureMiss ==
  (TotalStructureMiss /\ pagePc \in {"invoking", "settled", "done"}) =>
    /\ invocations > 0
    /\ \E k \in 1..Len(toasts) : toasts[k].variant = "default"

\* the call of analyze-report failed or returned an error
AnalysisCallFailed ==
  /\ pagePc = "settled"
  /\ IF invokeReply.data = None THEN invokeReply.error /= None
     ELSE invokeReply.error /= None \/ invokeReply.data[1].error /= None

AnalysisFailureShown ==
  /\ pagePc = "done"
  /\ toasts /= <<>>
  /\ toasts[Len(toasts)] = Toast("Analysis Failed", "destructive")
  /\ ~isLoading
  /\ result = None

\* the call of create-jira-issue failed or returned an error
CreateCallFailed ==
  /\ buttonPc = "settled"
  /\ IF createReply.data = None THEN createReply.error /= None
     ELSE createReply.error /= None \/ createReply.data[1].error /= None

CreateFailureShown ==
  /\ buttonPc = "done"
  /\ toasts /= <<>>
  /\ toasts[Len(toasts)] = Toast("Failed to Create Issue", "destructive")
  /\ ~isCreating
  /\ createdIssue = None

\* C19: a failed or error-carrying call of analyze-report leads to a
\* destructive "Analysis Failed" notification with isLoading false and no
\* result; a failed or error-carrying call of create-jira-issue leads to a
\* destructive "Failed to Create Issue" notification with isCreating false
\* and no created issue.
C19_BoundaryFailuresReported ==
  /\ AnalysisCallFailed ~> AnalysisFailureShown
  /\ CreateCallFailed ~> CreateFailureShown

\* an analysis failed, a later one succeeded, and the creation of its issue
\* failed
C19_Witness ==
  /\ HasToast("Analysis Failed", "destructive")
  /\ selected = 2
  /\ CreateFailureShown
  /\ createReply.data /= None

(***************************************************************************)
(* parseSparkExtentReport on report fragments that exercise the cascade,   *)
(* the status badge, the logs and the steps.                               *)
(***************************************************************************)
FragmentPool ==
  { \* a passing node whose badge is styled as a failure
    Node("div", "test pass", "", <<kName, Leaf("span", "badge danger", "", "KO")>>),
    \* an error in the markup, a badge that says skipped
    Node("div", "test", "", <<Leaf("h5", "", "", "Checkout"),
                              Leaf("span", "badge warning", "", "Skipped"), kPreError>>),
    \* a skipped node whose badge says nothing
    Node("div", "test skip", "", <<kName, Leaf("span", "badge", "", "Done")>>),
    \* a node whose only text is too short to be a name
    Node("div", "test", "ok", <<>>),
    \* a node with steps and a node with a log line
    Node("div", "test", "", <<kName, kStep, kCategory, Leaf("span", "test-time", "", "-3.0 s")>>),
    Node("div", "test pass", "", <<kName, kLogAt, Leaf("span", "duration", "", "12.5s")>>),
    \* a failing node whose step details hold the stack trace, before a <pre>
    Node("div", "test fail", "", <<kName,
                                   Leaf("div", "step-details", "", "NullPointerException at Foo.bar"),
                                   Leaf("pre", "", "", "Step 1 done")>>),
    \* a list of two items, found only by a later selector of the cascade
    Node("ul", "", "", <<Leaf("li", "test-item", "", "Item two"),
                         Leaf("li", "test-item", "", "Item three")>>),
    \* a table row
    Wrapped("table", Node("tr", "", "", <<Leaf("td", "", "", "Row case"),
                                         Leaf("td", "status", "", "Failed")>>)),
    \* an element found only by the status-class fallback
    Leaf("span", "status-passed", "", "Summary"),
    \* elements no selector matches
    Leaf("p", "", "", "Hello report"),
    Leaf("p", "", "", "Failed: 3, Passed: 7, Skipped: 2") }

Fragments == UNION {[1..n -> FragmentPool] : n \in 0..MaxNodes}

FragmentInit ==
  /\ doc \in Fragments
  /\ pc = "select"
  /\ testNodes = <<>>
  /\ index = 0
  /\ testCases = <<>>
  /\ origin = <<>>
  /\ now = 0
  /\ run = 1
  /\ first = <<>>
  /\ AnalyzeIdle
  /\ JiraIdle
  /\ PageIdle
  /\ RawIdle
  /\ RaceIdle

FragmentSpec == FragmentInit /\ [][Next]_vars

(***************************************************************************)
(* The claims about the badge, the cascade, the fallback trigger, the logs *)
(* and the steps.                                                          *)
(***************************************************************************)
\* record k comes from a node with a status or badge sub-element
HasBadge(k) == ~FromFallback(k) /\ StatusEl(doc, origin[k]) /= <<>>

BadgeText(k) == ToLower(TextContent(Elem(doc, StatusEl(doc, origin[k])[1])))

BadgeClass(k) == ToLower(Elem(doc, StatusEl(doc, origin[k])[1]).cls)

\* the verdict of the whole-node rules for the node of record k
WholeVerdict(k) ==
  IF FailEvidence(k) THEN "fail" ELSE IF SkipEvidence(k) THEN "skip" ELSE "pass"

\* C21 as stated: the badge overrides the whole-node verdict exactly when its
\* text or class holds fail, error, failed or exception (fail) or else skip or
\* skipped (skip).
C21_AsStated ==
  Returned =>
    \A k \in 1..Len(testCases) :
      HasBadge(k) =>
        testCases[k].status =
          IF HasAny(BadgeText(k), {"fail", "error", "failed", "exception"})
             \/ HasAny(BadgeClass(k), {"fail", "error", "failed", "exception"})
            THEN "fail"
          ELSE IF HasAny(BadgeText(k), {"skip", "skipped"})
                  \/ HasAny(BadgeClass(k), {"skip", "skipped"})
            THEN "skip"
          ELSE WholeVerdict(k)

BadgeFail(k) ==
  Includes(BadgeText(k), "fail") \/ HasAny(BadgeClass(k), {"fail", "danger"})

BadgeSkip(k) ==
  Includes(BadgeText(k), "skip") \/ HasAny(BadgeClass(k), {"skip", "warning"})

\* C21 as amended: the badge gives fail when its text holds fail or its class
\* holds fail or danger; else skip when its text holds skip or its class holds
\* skip or warning; else the whole-node verdict stands.
C21_BadgeWords ==
  Returned =>
    \A k \in 1..Len(testCases) :
      HasBadge(k) =>
        testCases[k].status =
          IF BadgeFail(k) THEN "fail" ELSE IF BadgeSkip(k) THEN "skip" ELSE WholeVerdict(k)

\* a badge that fails a passing node by its class alone, next to a badge that
\* leaves a skip verdict alone
C21_Witness ==
  /\ Returned
  /\ \E k \in 1..Len(testCases) :
       /\ HasBadge(k) /\ WholeVerdict(k) = "pass"
       /\ Includes(BadgeClass(k), "danger") /\ ~Includes(BadgeText(k), "fail")
       /\ testCases[k].status = "fail"
  /\ \E k \in 1..Len(testCases) :
       /\ HasBadge(k) /\ ~BadgeFail(k) /\ ~BadgeSkip(k)
       /\ WholeVerdict(k) = "skip" /\ testCases[k].status = "skip"

\* the cascade has run
Selected == pc \in {"nodes", "done"}

\* the elements the k-th selector of the list matches
Matches(k) == DocQueryAll(selectors[k], doc)

\* the elements whose class attribute contains pass, fail, skip or error
StatusClassed ==
  {AllRefs(doc)[i] : i \in {j \in 1..Len(AllRefs(doc)) :
     HasAny(Elem(doc, AllRefs(doc)[j]).cls, {"pass", "fail", "skip", "error"})}}

\* C22: the candidate nodes are exactly the elements of the first selector of
\* the list that matches an element; when no selector matches they are the
\* elements whose class contains pass, fail, skip or error, each once; they are
\* none only when the document has neither.
C22_FirstMatchWins ==
  Selected =>
    IF \E k \in 1..Len(selectors) : Matches(k) /= <<>>
      THEN LET k == CHOOSE i \in 1..Len(selectors) :
                      Matches(i) /= <<>> /\ \A j \in 1..(i - 1) : Matches(j) = <<>>
           IN  testNodes = Matches(k)
      ELSE /\ {testNodes[i] : i \in 1..Len(testNodes)} = StatusClassed
           /\ Len(testNodes) = Cardinality(StatusClassed)

\* the first selector matches one element and a later one matches two others
C22_Witness ==
  /\ Selected
  /\ Len(Matches(1)) = 1
  /\ testNodes = Matches(1)
  /\ \E k \in 2..Len(selectors) :
       /\ Len(Matches(k)) = 2
       /\ \A i \in 1..2 : Matches(k)[i] /= testNodes[1]

\* record k is a synthetic record of the regex fallback
Extracted(k) == StartsWith(testCases[k].id, "extracted-")

\* C23 as stated: when the cascade selected a node, no record is synthetic.
C23_AsStated ==
  Returned => (Len(testNodes) > 0 => \A k \in 1..Len(testCases) : ~Extracted(k))

\* the i-th selected node has a name of more than two characters
YieldsRecord(i) == Len(ExtractName(doc, testNodes[i], i - 1)) > 2

\* C23 as amended: the result holds synthetic records exactly when no selected
\* node yielded a record, and then it holds nothing else.
C23_FallbackOnlyWithoutRecord ==
  Returned =>
    /\ (\E k \in 1..Len(testCases) : Extracted(k))
         <=> (\A i \in 1..Len(testNodes) : ~YieldsRecord(i))
    /\ (\E k \in 1..Len(testCases) : Extracted(k))
         => (\A k \in 1..Len(testCases) : Extracted(k))

\* two nodes were selected, one yielded a record, and nothing is synthetic
C23_Witness ==
  /\ Returned
  /\ Len(testNodes) = 2
  /\ \E i \in 1..2 : YieldsRecord(i)
  /\ \E i \in 1..2 : ~YieldsRecord(i)
  /\ Len(testCases) = 1
  /\ ~Extracted(1)

\* the log-like sub-elements of the node of record k that have text, in
\* document order, each once
LogLike(k) ==
  LET any == [i \in 1..Len(errorSelectors) |-> errorSelectors[i][1]]
      els == QueryAll(any, doc, origin[k])
  IN  SelectSeq(els, LAMBDA ref : Trim(TextContent(Elem(doc, ref))) /= "")

\* C24: the logs of a record are the texts of the node's log-like sub-elements
\* in document order, each element once (followed by the notes on linked
\* screenshots).
C24_LogsInDocumentOrder ==
  Returned =>
    \A k \in 1..Len(testCases) :
      ~FromFallback(k) =>
        testCases[k].logs =
          OrUndefined([i \in 1..Len(LogLike(k)) |-> Trim(TextContent(Elem(doc, LogLike(k)[i])))]
                        \o ExtractLinkLogs(doc, origin[k]))

\* the steps found by the step-like selectors for the node of record k
StepLike(k) == StepTexts(doc, VisitAll(stepSelectors, doc, origin[k], 1), 1, 500, FALSE)

\* C25: the generic log-like selectors are scanned only if the step-like ones
\* gave no step; every step is longer than 5 and shorter than 500 characters
\* and none contains "Exception".
C25_StepsBandNoException ==
  Returned =>
    \A k \in 1..Len(testCases) :
      (~FromFallback(k) /\ testCases[k].stepsToReproduce /= None) =>
        LET steps == testCases[k].stepsToReproduce[1]
        IN  /\ Len(StepLike(k)) > 0 => steps = StepLike(k)
            /\ \A i \in 1..Len(steps) :
                 /\ Len(steps[i]) > 5
                 /\ Len(steps[i]) < 500
                 /\ ~Includes(steps[i], "Exception")

(***************************************************************************)
(* The claims about the summary and the failures of analyze-report.        *)
(***************************************************************************)
\* the function answered with a result
AnalyzeSucceeded == AnalyzeDone /\ analyzeResponse.body /= None

\* C28: the summary of a successful response is consistent: total is the sum
\* of passed, failed and skipped, no count is negative, and passRate is
\* passed / total * 100, within 0 and 100, and 0 when total is 0.
C28_SummaryConsistent ==
  AnalyzeSucceeded =>
    LET summary == analyzeResponse.body[1].summary
    IN  /\ summary.total = summary.passed + summary.failed + summary.skipped
        /\ summary.passed >= 0 /\ summary.failed >= 0 /\ summary.skipped >= 0
        /\ summary.passRate.num * summary.total = summary.passed * 100 * summary.passRate.den
        /\ summary.passRate.num >= 0
        /\ summary.passRate.num <= 100 * summary.passRate.den

\* lines 276-277: the items of analysisResult.failures the response was mapped from
UpstreamFailures ==
  LET analysisResult == AnalysisResult(aiResponse.content, ParsedTests).value
  IN  IF analysisResult.failures = None THEN <<>> ELSE analysisResult.failures[1].items

\* C29: every failure of a successful response carries a test case whose
\* status is fail, and failures whose upstream items name different tests
\* carry different test cases.
C29_FailuresCarryFailedTests ==
  AnalyzeSucceeded =>
    LET failures == analyzeResponse.body[1].failures
    IN  /\ \A k \in 1..Len(failures) : failures[k].testCase.status = "fail"
        /\ \A j, k \in 1..Len(failures) :
             /\ UpstreamFailures[j].testName /= None
             /\ UpstreamFailures[k].testName /= None
             /\ UpstreamFailures[j].testName /= UpstreamFailures[k].testName
             => failures[j].testCase /= failures[k].testCase

(***************************************************************************)
(* extractRawContent (src/unnamed/part_001, lines 237-281), called by      *)
(* handleFileSelect on the content it has just handed to                   *)
(* parseSparkExtentReport (src/src/pages/Index.tsx, lines 34-35).          *)
(***************************************************************************)
MaxRawNodes == 2

\* line 263
MinContentLen == 50

\* line 276
MaxContentAreas == 10

\* line 272
MaxSnippetLen == 15000

\* line 242
strippedTags == {"script", "style", "link"}

Kept(e) == e.tag \notin strippedTags

\* line 242: the parsed document without the script, style and link elements
\* that querySelectorAll finds
StripElements(d) ==
  LET top == SelectSeq(d, Kept)
  IN  [i \in 1..Len(top) |->
         [top[i] EXCEPT !.kids = IF top[i].tag = "template" THEN @ ELSE SelectSeq(@, Kept)]]

\* lines 248-256
mainSelectors ==
  << One(Cmp("", {"test-content"})),
     One(Cmp("", {"report-content"})),
     One(Cmp("", {"container"})),
     One(Cmp("", {"card"})),
     One(Cmp("table", {})),
     One(Cmp("main", {})),
     One(Cmp("body", {})) >>

\* lines 259 and 262: the textContent of the elements the k-th selector
\* matches; the last selector matches the body
MainTexts(d, k) ==
  IF k = Len(mainSelectors) THEN <<BodyText(d)>>
  ELSE LET elements == DocQueryAll(mainSelectors[k], d)
       IN  [i \in 1..Len(elements) |-> TextContent(Elem(d, elements[i]))]

\* line 263
LongEnough(text) == text /= "" /\ Len(text) > MinContentLen

RECURSIVE Pushed(_, _)
\* lines 261-266: what the elements of one selector add to contentAreas
Pushed(texts, i) ==
  IF i > Len(texts) THEN <<>>
  ELSE (IF LongEnough(Trim(texts[i])) THEN <<Trim(texts[i])>> ELSE <<>>)
         \o Pushed(texts, i + 1)

\* lines 274-281: the template literal
Digest(areas, htmlSnippet) ==
  "\n=== EXTRACTED TEXT CONTENT ===\n"
    \o Join(SubSeq(areas, 1, IF Len(areas) > MaxContentAreas THEN MaxContentAreas
                             ELSE Len(areas)), "\n\n---\n\n")
    \o "\n\n=== HTML STRUCTURE (for reference) ===\n"
    \o htmlSnippet \o "\n"

RECURSIVE Doubled(_, _)
Doubled(str, n) == IF n = 0 THEN str ELSE Doubled(str \o str, n - 1)

\* 52 characters
Text52 == "Checkout failed with a timeout after the third retry"

\* 50 characters
Text50 == "Checkout failed with a timeout after the 3rd retry"

\* 16384 characters
LongText == Doubled("0123456789abcdef", 10)

RawPool ==
  { Leaf("div", "card", "", Text52),
    Leaf("div", "card", "", Text50),
    Leaf("div", "card", "", "  " \o Text50 \o "\n "),
    Node("div", "container", "", <<Leaf("div", "card", "", Text52),
                                   Leaf("script", "", "", "var total = 3;")>>),
    Node("div", "container", "Totals", <<Leaf("style", "", "", Text52)>>),
    Leaf("div", "report-content", "", "Report for build 7 " \o Text52),
    Leaf("script", "", "", "window.report = { name: 'nightly', failed: 3, passed: 7 };"),
    Leaf("style", "", "", ".card { color: red }"),
    Leaf("link", "", "theme.css", ""),
    Leaf("table", "", "", "Login passed " \o Text52),
    Leaf("main", "", "", "Summary"),
    Node("template", "", "", <<Leaf("script", "", "", "var total = 3;"),
                               Leaf("div", "card", "", Text52)>>),
    Node("div", "test pass", "", <<kName>>),
    Leaf("p", "", "", "Hello report") }

\* a test node, a script, twelve cards of more than 50 characters each, and
\* a paragraph that makes the markup of the body longer than the snippet
ManyCards ==
  <<Node("div", "test pass", "", <<kName>>), Leaf("script", "", "", "var total = 3;")>>
    \o [i \in 1..12 |-> Leaf("div", "card", "", "Card " \o ToString(i) \o ": " \o Text52)]
    \o <<Leaf("p", "", "", LongText)>>

RawDocuments == UNION {[1..n -> RawPool] : n \in 0..MaxRawNodes} \cup {ManyCards}

RawInit ==
  /\ doc \in RawDocuments
  /\ pc = "select"
  /\ testNodes = <<>>
  /\ index = 0
  /\ testCases = <<>>
  /\ origin = <<>>
  /\ now = 0
  /\ run = 1
  /\ first = <<>>
  /\ AnalyzeIdle
  /\ JiraIdle
  /\ PageIdle
  /\ RaceIdle
  /\ rawDoc = <<>>
  /\ rawPc = "parse"
  /\ rawIndex = 0
  /\ contentAreas = <<>>
  /\ rawContent = <<>>

outsideRaw == <<parserVars, analyzeVars, jiraVars, pageVars, buttonVars, raceVars>>

\* lines 238-245, after parseSparkExtentReport has returned (Index.tsx lines
\* 34-35): the content is parsed into a document of its own and stripped
ParseAndStrip ==
  /\ pc = "done"
  /\ rawPc = "parse"
  /\ rawDoc' = StripElements(doc)
  /\ contentAreas' = <<>>
  /\ rawIndex' = 1
  /\ rawPc' = "collect"
  /\ UNCHANGED rawContent
  /\ UNCHANGED outsideRaw

\* lines 258-269: one turn of the loop over mainSelectors
CollectContent ==
  /\ rawPc = "collect"
  /\ LET areas == contentAreas \o Pushed(MainTexts(rawDoc, rawIndex), 1)
     IN  /\ contentAreas' = areas
         /\ IF Len(areas) > 0 \/ rawIndex = Len(mainSelectors)
              THEN rawPc' = "snippet" /\ UNCHANGED rawIndex
              ELSE rawIndex' = rawIndex + 1 /\ UNCHANGED rawPc
  /\ UNCHANGED <<rawDoc, rawContent>>
  /\ UNCHANGED outsideRaw

\* lines 272-281
ReturnDigest ==
  /\ rawPc = "snippet"
  /\ rawContent' = Digest(contentAreas, Substring0(HtmlContent(rawDoc), MaxSnippetLen))
  /\ rawPc' = "done"
  /\ UNCHANGED <<rawDoc, rawIndex, contentAreas>>
  /\ UNCHANGED outsideRaw

RawNext ==
  \/ SelectNodes \/ VisitNode \/ RegexFallback \/ Return
  \/ ParseAndStrip \/ CollectContent \/ ReturnDigest

RawSpec == RawInit /\ [][RawNext]_vars

(***************************************************************************)
(* The claim about extractRawContent.                                      *)
(***************************************************************************)
\* the elements of the input outside every script, style and link element
CleanRefs ==
  SelectSeq(AllRefs(doc),
            LAMBDA ref : /\ Elem(doc, ref).tag \notin {"script", "style", "link"}
                         /\ doc[ref[1]].tag \notin {"script", "style", "link"})

\* rawDoc holds exactly the elements of CleanRefs, in their order
IsCleanBody ==
  /\ Len(AllRefs(rawDoc)) = Len(CleanRefs)
  /\ \A i \in 1..Len(CleanRefs) :
       LET was == Elem(doc, CleanRefs[i])
           is == Elem(rawDoc, AllRefs(rawDoc)[i])
       IN  /\ is.tag = was.tag /\ is.cls = was.cls /\ is.text = was.text
           /\ is.attr = was.attr
           /\ (AllRefs(rawDoc)[i][2] = 0) = (CleanRefs[i][2] = 0)

\* the trimmed texts of more than 50 characters among the elements that the
\* k-th main-content selector matches in the clean body, in document order
LongTexts(k) ==
  SelectSeq([i \in 1..Len(MainTexts(rawDoc, k)) |-> Trim(MainTexts(rawDoc, k)[i])],
            LAMBDA text : Len(text) > 50)

RECURSIVE FirstFruitful(_)
\* the first main-content selector, from the k-th on, that matches an element
\* with such a text; 0 when there is none
FirstFruitful(k) ==
  IF k > Len(mainSelectors) THEN 0
  ELSE IF Len(LongTexts(k)) > 0 THEN k
  ELSE FirstFruitful(k + 1)

\* the text part the claim describes
TextPart ==
  LET k == FirstFruitful(1)
  IN  IF k = 0 THEN <<>>
      ELSE SubSeq(LongTexts(k), 1, IF Len(LongTexts(k)) > 10 THEN 10 ELSE Len(LongTexts(k)))

\* the markup part the claim describes
MarkupPart ==
  IF Len(HtmlContent(rawDoc)) > 15000 THEN SubSeq(HtmlContent(rawDoc), 1, 15000)
  ELSE HtmlContent(rawDoc)

MaxRuns == 2

\* the name of the r-th file handed to the widget
RaceFile(r) == "report-" \o ToString(r) \o ".html"

RunIds == 1..MaxRuns

RaceInit ==
  /\ ParserIdle
  /\ AnalyzeIdle
  /\ JiraIdle
  /\ RawIdle
  /\ file = <<>>
  /\ fileName = None
  /\ uploadError = None
  /\ selected = 0
  /\ pagePc = "off"
  /\ isLoading = FALSE
  /\ result = None
  /\ toasts = <<>>
  /\ invocations = 0
  /\ invokeReply = <<>>
  /\ credentials = FALSE
  /\ clicked = 0
  /\ buttonPc = "off"
  /\ isCreating = FALSE
  /\ createdIssue = None
  /\ createReply = <<>>
  /\ runs = [r \in RunIds |-> [name |-> RaceFile(r), at |-> "idle", empty |-> FALSE,
                               data |-> None]]
  /\ resultOf = None

outsideRace ==
  <<parserVars, analyzeVars, jiraVars, rawVars, buttonVars, file, uploadError, pagePc,
    invokeReply>>

\* FileUpload.tsx lines 17-40 for a file that passes both checks: the r-th
\* file is handed to a reader; empty tells whether the parser will find no
\* test case in it
SelectFile(r) ==
  /\ result = None
  /\ ~isLoading
  /\ runs[r].at = "idle"
  /\ \A q \in 1..(r - 1) : runs[q].at /= "idle"
  /\ AcceptedName(runs[r].name)
  /\ \E empty \in BOOLEAN : runs' = [runs EXCEPT ![r].at = "reading", ![r].empty = empty]
  /\ UNCHANGED <<fileName, selected, isLoading, result, toasts, invocations, resultOf>>
  /\ UNCHANGED outsideRace

\* FileUpload.tsx lines 33-36 and Index.tsx lines 24-32: the read completes
\* and handleFileSelect runs up to its first timer
ReadCompletes(r) ==
  /\ runs[r].at = "reading"
  /\ selected' = selected + 1
  /\ isLoading' = TRUE
  /\ result' = None
  /\ resultOf' = None
  /\ fileName' = Some(runs[r].name)
  /\ runs' = [runs EXCEPT ![r].at = "parsing"]
  /\ UNCHANGED <<toasts, invocations>>
  /\ UNCHANGED outsideRace

\* Index.tsx lines 34-50: the content is parsed and the analysis is invoked
ParseAndInvoke(r) ==
  /\ runs[r].at = "parsing"
  /\ toasts' = IF runs[r].empty THEN Append(toasts, Toast("No test cases found", "default"))
               ELSE toasts
  /\ invocations' = invocations + 1
  /\ runs' = [runs EXCEPT ![r].at = "invoking"]
  /\ UNCHANGED <<fileName, selected, isLoading, result, resultOf>>
  /\ UNCHANGED outsideRace

\* Index.tsx lines 52-58 and 73-82: the response makes the handler throw
ResponseRejected(r) ==
  /\ runs[r].at = "invoking"
  /\ \E reply \in AnalyzeReplies : Throws(reply)
  /\ toasts' = Append(toasts, Toast("Analysis Failed", "destructive"))
  /\ isLoading' = FALSE
  /\ runs' = [runs EXCEPT ![r].at = "done"]
  /\ UNCHANGED <<fileName, selected, result, invocations, resultOf>>
  /\ UNCHANGED outsideRace

\* Index.tsx lines 52-62: the response is taken and the second timer is set
ResponseAccepted(r) ==
  /\ runs[r].at = "invoking"
  /\ \E reply \in AnalyzeReplies :
       /\ ~Throws(reply)
       /\ runs' = [runs EXCEPT ![r].at = "generating", ![r].data = reply.data]
  /\ UNCHANGED <<fileName, selected, isLoading, result, toasts, invocations, resultOf>>
  /\ UNCHANGED outsideRace

\* Index.tsx lines 64-82: the result is set; data.failures.filter on line 67
\* throws when the data has no failures
RunCompletes(r) ==
  /\ runs[r].at = "generating"
  /\ result' = runs[r].data
  /\ resultOf' = Some(runs[r].name)
  /\ toasts' = Append(toasts, IF runs[r].data[1].failures = None
                                THEN Toast("Analysis Failed", "destructive")
                                ELSE Toast("Analysis Complete", "default"))
  /\ isLoading' = FALSE
  /\ runs' = [runs EXCEPT ![r].at = "done"]
  /\ UNCHANGED <<fileName, selected, invocations>>
  /\ UNCHANGED outsideRace

\* Index.tsx lines 85-88, from the New Analysis button of the results view
\* (lines 137 and 151)
NewAnalysis ==
  /\ result /= None
  /\ ~isLoading
  /\ result' = None
  /\ resultOf' = None
  /\ fileName' = None
  /\ UNCHANGED <<selected, isLoading, toasts, invocations, runs>>
  /\ UNCHANGED outsideRace

RaceNext ==
  \/ \E r \in RunIds : SelectFile(r)
  \/ \E r \in RunIds : ReadCompletes(r)
  \/ \E r \in RunIds : ParseAndInvoke(r)
  \/ \E r \in RunIds : ResponseRejected(r)
  \/ \E r \in RunIds : ResponseAccepted(r)
  \/ \E r \in RunIds : RunCompletes(r)
  \/ NewAnalysis

RaceSpec == RaceInit /\ [][RaceNext]_vars

(***************************************************************************)
(* The claim about overlapping uploads.                                    *)
(***************************************************************************)
\* C27: under any interleaving of file selections, read completions,
\* analysis responses and resets, a displayed result belongs to the file
\* whose name is displayed, and no result is set after a reset: while
\* fileName is null there is no result.
C27_ResultBelongsToFileName ==
  /\ (result /= None /\ ~isLoading) => (fileName /= None /\ resultOf = fileName)
  /\ fileName = None => result = None

(***************************************************************************)
(* The claim about the issue key of a failure.                             *)
(***************************************************************************)
\* handleCreate has created an issue in this step
IssueRecorded == buttonPc = "settled" /\ buttonPc' = "done" /\ createdIssue' /= None

\* C30: when an issue is created for one failure, exactly that failure gets
\* jiraIssueKey set to the created key; every other failure and every other
\* field of the result is left unchanged.
C30_OnlyThatFailure ==
  [][IssueRecorded =>
       /\ result' /= None
       /\ result'[1].error = result[1].error
       /\ result'[1].summary = result[1].summary
       /\ result'[1].failures /= None
       /\ Len(result'[1].failures[1]) = Len(result[1].failures[1])
       /\ \A k \in 1..Len(result[1].failures[1]) :
            result'[1].failures[1][k] =
              IF k = clicked
                THEN [result[1].failures[1][k] EXCEPT !.jiraIssueKey = createdIssue']
                ELSE result[1].failures[1][k]]_vars

====
